---- MODULE Spec2Model ----
(***************************************************************************)
(* Model of the visualization core of paper_connector:                     *)
(*   - FlowVisualization (stacked flow chart, hit-testing, selection)      *)
(*   - ClusterGraph (force-graph data hand-off and force configuration)    *)
(* both in src/frontend/src/components/ClusterGraph.tsx.                   *)
(*                                                                         *)
(* Screen coordinates are exact rationals <<numerator, denominator>> with  *)
(* a positive denominator, so the scale functions and their inversion in   *)
(* the hit-test are computed as the code computes them.                    *)
(***************************************************************************)
EXTENDS Integers, Sequences, FiniteSets, TLC

VARIABLES
    view,             \* which component is mounted: "flow" or "graph"
    flowData,         \* FlowVisualization prop flowData
    processedData,    \* useMemo processedData: <<>> (null) or <<record>>
    hasOnClusterClick,\* whether the optional prop onClusterClick is supplied
    dimensions,       \* useState dimensions of the mounted component
    tooltip,          \* useState tooltip: <<>> (null) or <<TooltipData>>
    hoveredCluster,   \* useState hoveredCluster: Null or a cluster name
    selectedCluster,  \* useState selectedCluster: Null or a cluster name
    graphData,        \* ClusterGraph prop graphData
    transformedData,  \* useMemo transformedData: what ForceGraph2D receives
    forceTimers,      \* pending setTimeout closures of the force effect
    forces,           \* custom forces installed on the solver: <<>> or <<record>>
    reheated,         \* d3ReheatSimulation was called after the forces were last installed
    positions,        \* the solver's node objects: "initial" or "moved" by ticks
    hoveredNode,      \* ClusterGraph useState hoveredNode: Null or a node id
    cursor,           \* containerRef.current.style.cursor
    selectedNodeId,   \* ClusterGraph prop selectedNodeId: Null or a node id
    hasOnNodeHover,   \* whether the optional prop onNodeHover is supplied
    isFullscreen,     \* ClusterGraph useState isFullscreen
    fullscreenElement,\* whether document.fullscreenElement is set
    promises,         \* promises returned by requestFullscreen / exitFullscreen
    fullscreenEvents, \* fullscreenchange events queued and not yet dispatched
    logged,           \* console.error calls made by the handler that ran last
    emitted,          \* host notifications made by the handler that ran last
    lastNodeHover,    \* the argument of the latest onNodeHover call: <<>> (no call yet) or <<argument>>
    app,              \* App's useState values, a record with a field for each
    loads,            \* loadMonthData calls awaiting their Promise.all
    reindex           \* the reindex chain: <<>> or <<what it is waiting for>>

flowVars  == <<flowData, processedData, hasOnClusterClick, tooltip, hoveredCluster, selectedCluster>>
layoutVars == <<graphData, transformedData, forceTimers, forces, reheated, positions>>
hoverVars  == <<hoveredNode, cursor, selectedNodeId, hasOnNodeHover>>
fullscreenVars == <<isFullscreen, fullscreenElement, promises, fullscreenEvents, logged>>
graphVars == <<layoutVars, hoverVars, fullscreenVars>>
appVars == <<app, loads, reindex>>
hostVars == <<lastNodeHover, appVars>>
vars == <<view, dimensions, flowVars, graphVars, emitted, hostVars>>

Null == "null"

-----------------------------------------------------------------------------
(* Bounds of the model                                                     *)
MaxClusters == 2      \* clusters in a flow snapshot
MaxDays     == 2      \* days in a flow snapshot
MaxFlowPapers == 2    \* papers in a flow snapshot, all days and clusters together
MaxNodes    == 2      \* nodes in a graph snapshot
MaxLinks    == 1      \* links in a graph snapshot
MaxPapers   == 2      \* papers of all nodes of a graph snapshot together
MaxShared   == 1      \* sharedCount of a link
MaxTimers   == 2      \* pending force-configuration timers
MaxRequests == 1      \* fullscreen promises not yet reacted to
MaxEvents   == 1      \* fullscreenchange events not yet dispatched

ClusterNames == <<"X", "Y", "Z", "W">>
DateNames    == <<"2024-01-01", "2024-01-02", "2024-01-03", "2024-01-04">>
NodeIds      == <<"A", "B", "C", "D">>
NodeLabels   == <<"Cluster A", "Cluster B", "Cluster C", "Cluster D">>

-----------------------------------------------------------------------------
(* Exact rational arithmetic                                               *)
RECURSIVE GCD(_, _)
GCD(a, b) == IF b = 0 THEN a ELSE GCD(b, a % b)

Abs(n) == IF n < 0 THEN -n ELSE n

Rat(n, d) ==
    LET s == IF d < 0 THEN -1 ELSE 1
        g == GCD(Abs(n), Abs(d))
    IN  <<(s * n) \div g, (s * d) \div g>>

RInt(n)   == <<n, 1>>
RLe(a, b) == a[1] * b[2] <= b[1] * a[2]
RLt(a, b) == a[1] * b[2] <  b[1] * a[2]
RAdd(a, b) == Rat(a[1] * b[2] + b[1] * a[2], a[2] * b[2])
RHalf(a)  == Rat(a[1], 2 * a[2])
RMul(a, b) == Rat(a[1] * b[1], a[2] * b[2])

\* Math.round of a rational: floor(q + 1/2)
MathRound(q) == (2 * q[1] + q[2]) \div (2 * q[2])

Max2(a, b) == IF a >= b THEN a ELSE b
Min2(a, b) == IF a <= b THEN a ELSE b

\* Math.max(...xs, floor)
RECURSIVE MathMax(_, _)
MathMax(xs, floor) ==
    IF xs = <<>> THEN floor ELSE Max2(Head(xs), MathMax(Tail(xs), floor))

\* Array.prototype.indexOf, 0-based, -1 when absent
RECURSIVE IndexFrom(_, _, _)
IndexFrom(xs, x, i) ==
    IF i > Len(xs) THEN -1
    ELSE IF xs[i] = x THEN i - 1 ELSE IndexFrom(xs, x, i + 1)

IndexOf(xs, x) == IndexFrom(xs, x, 1)

-----------------------------------------------------------------------------
(* FlowVisualization: constants                                            *)
MarginTop    == 20
MarginRight  == 150
MarginBottom == 50
MarginLeft   == 60
InitialWidth == 800
LegendLimit  == 12
FallbackColor == "#6B7280"

\* widths reported by getBoundingClientRect and heights passed as the prop
FlowWidths  == {210, 410}
FlowHeights == {70, 400}

-----------------------------------------------------------------------------
(* FlowVisualization: processedData (the stack builder)                    *)

\* day.cluster_counts[cluster] || 0
CountOf(cluster_counts, cluster) ==
    IF cluster \in DOMAIN cluster_counts THEN cluster_counts[cluster] ELSE 0

\* as StackValues, but the running y0 is not advanced ("y0 += count" lost)
RECURSIVE StackValuesStuck(_, _, _, _)
StackValuesStuck(clusters, day, i, y0) ==
    IF i > Len(clusters) THEN <<>>
    ELSE LET count == CountOf(day.cluster_counts, clusters[i])
         IN  <<[cluster |-> clusters[i], y0 |-> y0, y1 |-> y0 + count, count |-> count]>>
             \o StackValuesStuck(clusters, day, i + 1, y0)

\* as StackValues, but with no entry for a cluster the day has no key for
RECURSIVE StackValuesPresentOnly(_, _, _, _)
StackValuesPresentOnly(clusters, day, i, y0) ==
    IF i > Len(clusters) THEN <<>>
    ELSE IF clusters[i] \notin DOMAIN day.cluster_counts
         THEN StackValuesPresentOnly(clusters, day, i + 1, y0)
         ELSE LET count == day.cluster_counts[clusters[i]]
              IN  <<[cluster |-> clusters[i], y0 |-> y0, y1 |-> y0 + count, count |-> count]>>
                  \o StackValuesPresentOnly(clusters, day, i + 1, y0 + count)

\* the clusters.forEach loop of one day, from cluster i on, with running y0
RECURSIVE StackValues(_, _, _, _)
StackValues(clusters, day, i, y0) ==
    IF i > Len(clusters) THEN <<>>
    ELSE LET count == CountOf(day.cluster_counts, clusters[i])
         IN  <<[cluster |-> clusters[i], y0 |-> y0, y1 |-> y0 + count, count |-> count]>>
             \o StackValues(clusters, day, i + 1, y0 + count)

\* total += count over the same loop
RECURSIVE StackTotal(_, _, _)
StackTotal(clusters, day, i) ==
    IF i > Len(clusters) THEN 0
    ELSE CountOf(day.cluster_counts, clusters[i]) + StackTotal(clusters, day, i + 1)

StackedDay(f, day) ==
    [date   |-> day.date,
     values |-> StackValues(f.clusters, day, 1, 0),
     total  |-> StackTotal(f.clusters, day, 1)]

StackedData(f) == [i \in 1..Len(f.daily_data) |-> StackedDay(f, f.daily_data[i])]

\* Math.max(...stackedData.map(d => d.total), 1)
MaxY(stackedData) == MathMax([i \in 1..Len(stackedData) |-> stackedData[i].total], 1)

\* as ProcessedData, but without the early "return null" for no days
ProcessedDataNoGuard(f) ==
    LET stackedData == StackedData(f)
    IN  <<[stackedData |-> stackedData,
           dates       |-> [i \in 1..Len(f.daily_data) |-> f.daily_data[i].date],
           maxY        |-> MaxY(stackedData),
           clusters    |-> f.clusters]>>

\* the useMemo body: null (<<>>) exactly when daily_data is empty
ProcessedData(f) ==
    IF Len(f.daily_data) = 0 THEN <<>>
    ELSE LET stackedData == StackedData(f)
         IN  <<[stackedData |-> stackedData,
                dates       |-> [i \in 1..Len(f.daily_data) |-> f.daily_data[i].date],
                maxY        |-> MaxY(stackedData),
                clusters    |-> f.clusters]>>

-----------------------------------------------------------------------------
(* FlowVisualization: scales                                               *)
InnerWidth(dims)  == dims.width - MarginLeft - MarginRight
InnerHeight(dims) == dims.height - MarginTop - MarginBottom

\* Math.max(processedData.dates.length - 1, 1)
XDenominator(pd) == Max2(Len(pd.dates) - 1, 1)

\* margin.left + (idx / XDenominator) * innerWidth, idx = dates.indexOf(date)
XScale(pd, dims, date) ==
    Rat(MarginLeft * XDenominator(pd) + IndexOf(pd.dates, date) * InnerWidth(dims),
        XDenominator(pd))

\* as YScale, but growing downwards with the value (the inversion lost)
YScaleNotInverted(pd, dims, value) ==
    Rat(MarginTop * pd.maxY + value * InnerHeight(dims), pd.maxY)

\* margin.top + innerHeight - (value / maxY) * innerHeight
YScale(pd, dims, value) ==
    Rat((MarginTop + InnerHeight(dims)) * pd.maxY - value * InnerHeight(dims), pd.maxY)

-----------------------------------------------------------------------------
(* FlowVisualization: hit-testing (handleMouseMove)                        *)

\* the "within chart area" rejection test
OutsideChart(dims, x, y) ==
    \/ RLt(x, RInt(MarginLeft))
    \/ RLt(RInt(dims.width - MarginRight), x)
    \/ RLt(y, RInt(MarginTop))
    \/ RLt(RInt(dims.height - MarginBottom), y)

\* as ClampedIdx, but rounding down
ClampedIdxFloor(pd, dims, x) ==
    LET n    == Len(pd.dates)
        iw   == InnerWidth(dims)
        relX == Rat(x[1] - MarginLeft * x[2], x[2])
    IN  IF iw = 0
        THEN IF relX[1] = 0 \/ n - 1 = 0 THEN <<>>
             ELSE IF relX[1] > 0 THEN <<Max2(0, n - 1)>> ELSE <<0>>
        ELSE LET r       == Rat(relX[1] * (n - 1), relX[2] * iw)
                 dateIdx == (r[1] - (r[1] % r[2])) \div r[2]
             IN  <<Max2(0, Min2(dateIdx, n - 1))>>

\* clampedIdx: <<k>> for a number k, <<>> for NaN.
\* relX / innerWidth is NaN for 0/0 and +-Infinity for a non-zero relX over 0;
\* Infinity * 0 is NaN; Math.round, Math.min and Math.max propagate NaN.
ClampedIdx(pd, dims, x) ==
    LET n    == Len(pd.dates)
        iw   == InnerWidth(dims)
        relX == Rat(x[1] - MarginLeft * x[2], x[2])
    IN  IF iw = 0
        THEN IF relX[1] = 0 \/ n - 1 = 0 THEN <<>>
             ELSE IF relX[1] > 0 THEN <<Max2(0, n - 1)>> ELSE <<0>>
        ELSE LET dateIdx == MathRound(Rat(relX[1] * (n - 1), relX[2] * iw))
             IN  <<Max2(0, Min2(dateIdx, n - 1))>>

\* processedData.stackedData[clampedIdx]: <<>> when undefined
DayAt(pd, idx) ==
    IF idx # <<>> /\ idx[1] + 1 \in 1..Len(pd.stackedData)
    THEN <<pd.stackedData[idx[1] + 1]>>
    ELSE <<>>

\* as FoundCluster, but with the two screen bounds of the band swapped
RECURSIVE FoundClusterSwapped(_, _, _, _, _)
FoundClusterSwapped(pd, dims, values, y, i) ==
    IF i > Len(values) THEN Null
    ELSE LET v        == values[i]
             y0Screen == YScale(pd, dims, v.y0)
             y1Screen == YScale(pd, dims, v.y1)
         IN  IF RLe(y0Screen, y) /\ RLe(y, y1Screen) /\ v.count > 0
             THEN v.cluster
             ELSE FoundClusterSwapped(pd, dims, values, y, i + 1)

\* as FoundCluster, but without the "count > 0" test
RECURSIVE FoundClusterAnyCount(_, _, _, _, _)
FoundClusterAnyCount(pd, dims, values, y, i) ==
    IF i > Len(values) THEN Null
    ELSE LET v        == values[i]
             y0Screen == YScale(pd, dims, v.y0)
             y1Screen == YScale(pd, dims, v.y1)
         IN  IF RLe(y1Screen, y) /\ RLe(y, y0Screen)
             THEN v.cluster
             ELSE FoundClusterAnyCount(pd, dims, values, y, i + 1)

\* the for..of scan over day.values with break at the first match
RECURSIVE FoundCluster(_, _, _, _, _)
FoundCluster(pd, dims, values, y, i) ==
    IF i > Len(values) THEN Null
    ELSE LET v        == values[i]
             y0Screen == YScale(pd, dims, v.y0)
             y1Screen == YScale(pd, dims, v.y1)
         IN  IF RLe(y1Screen, y) /\ RLe(y, y0Screen) /\ v.count > 0
             THEN v.cluster
             ELSE FoundCluster(pd, dims, values, y, i + 1)

\* day.values.find(v => v.cluster === foundCluster): <<>> when undefined
RECURSIVE FindValue(_, _, _)
FindValue(values, cluster, i) ==
    IF i > Len(values) THEN <<>>
    ELSE IF values[i].cluster = cluster THEN <<values[i]>>
    ELSE FindValue(values, cluster, i + 1)

\* flowData.colors[cluster] || '#6B7280'
ColorOf(f, cluster) ==
    IF cluster \in DOMAIN f.colors THEN f.colors[cluster] ELSE FallbackColor

\* the state written by handleMouseMove for a pointer at canvas position (x, y);
\* the canvas is taken to sit at the client origin, so clientX = x, clientY = y
HitTest(f, pd, dims, curTooltip, x, y) ==
    IF OutsideChart(dims, x, y)
    THEN [hoveredCluster |-> Null, tooltip |-> <<>>]
    ELSE LET day == DayAt(pd, ClampedIdx(pd, dims, x))
         IN  IF day = <<>>
             THEN [hoveredCluster |-> Null, tooltip |-> <<>>]
             ELSE LET foundCluster == FoundCluster(pd, dims, day[1].values, y, 1)
                      value        == FindValue(day[1].values, foundCluster, 1)
                  IN  [hoveredCluster |-> foundCluster,
                       tooltip |->
                          IF foundCluster # Null
                          THEN IF value # <<>>
                               THEN <<[x |-> x, y |-> y, date |-> day[1].date,
                                       cluster |-> foundCluster,
                                       count |-> value[1].count,
                                       total |-> day[1].total,
                                       color |-> ColorOf(f, foundCluster)]>>
                               ELSE curTooltip
                          ELSE <<>>]

-----------------------------------------------------------------------------
(* FlowVisualization: what is rendered                                     *)

\* the canvas, its container and the legend exist only past the early return
\* "if (!processedData) return <no data message>"
CanvasRendered(pd) == pd # <<>>

\* as BandAlpha, but with the dimming applied after the raising
BandAlphaDimmedLast(cluster, hovered, selected) ==
    LET isHovered      == hovered = cluster
        isSelected     == selected = cluster
        isOtherHovered == hovered # Null /\ hovered # cluster
        alpha0 == <<7, 10>>
        alpha1 == IF isHovered \/ isSelected THEN <<9, 10>> ELSE alpha0
    IN  IF isOtherHovered THEN <<3, 10>> ELSE alpha1

\* the draw effect's fill opacity of one band: alpha starts at 0.7, becomes
\* 0.3 if another cluster is hovered, then 0.9 if the band is hovered or
\* selected
BandAlpha(cluster, hovered, selected) ==
    LET isHovered      == hovered = cluster
        isSelected     == selected = cluster
        isOtherHovered == hovered # Null /\ hovered # cluster
        alpha0 == <<7, 10>>
        alpha1 == IF isOtherHovered THEN <<3, 10>> ELSE alpha0
    IN  IF isHovered \/ isSelected THEN <<9, 10>> ELSE alpha1

\* the draw effect strokes the band's outline in '#FFD21E'
BandOutlined(cluster, hovered, selected) == hovered = cluster \/ selected = cluster

\* flowData.clusters.slice(0, 12)
LegendClusters(f) ==
    {f.clusters[i] : i \in 1..Min2(Len(f.clusters), LegendLimit)}

\* as ToggleSelected, but never clearing the selection
SelectOnly(prev, cluster) == cluster

\* setSelectedCluster(prev => prev === cluster ? null : cluster)
ToggleSelected(prev, cluster) == IF prev = cluster THEN Null ELSE cluster

-----------------------------------------------------------------------------
(* Inputs                                                                  *)

FlowColors == [c \in {ClusterNames[1]} |-> "#FF6B6B"]

RECURSIVE SumCounts(_, _)
SumCounts(m, k) == IF k = 0 THEN 0 ELSE m[ClusterNames[k]] + SumCounts(m, k - 1)

CountMaps(k) ==
    {m \in [{ClusterNames[j] : j \in 1..k} -> 0..MaxFlowPapers] :
        SumCounts(m, k) <= MaxFlowPapers}

RECURSIVE SumDays(_, _, _)
SumDays(cs, n, k) == IF n = 0 THEN 0 ELSE SumCounts(cs[n], k) + SumDays(cs, n - 1, k)

DaySeqs(k) ==
    UNION {{[i \in 1..n |-> [date |-> DateNames[i], cluster_counts |-> cs[i]]] :
              cs \in {c \in [1..n -> CountMaps(k)] : SumDays(c, n, k) <= MaxFlowPapers}} :
           n \in 0..MaxDays}

\* start_date and end_date are only displayed and are left out
FlowSnapshots ==
    UNION {{[clusters |-> SubSeq(ClusterNames, 1, k), colors |-> FlowColors,
             daily_data |-> days] : days \in DaySeqs(k)} : k \in 0..MaxClusters}

\* snapshots whose days name only some clusters: a day's cluster_counts has
\* any subset of the keys clusters[1..k] and of one further key that is not
\* in clusters, each with a positive count
SparseKeySets(k) == SUBSET {ClusterNames[j] : j \in 1..(k + 1)}

RECURSIVE SumOver(_, _)
SumOver(m, keys) ==
    IF keys = {} THEN 0
    ELSE LET c == CHOOSE c \in keys : TRUE IN m[c] + SumOver(m, keys \ {c})

SparseCountMaps(k) ==
    UNION {{m \in [keys -> 1..MaxFlowPapers] : SumOver(m, keys) <= MaxFlowPapers} :
             keys \in SparseKeySets(k)}

RECURSIVE SumSparseDays(_, _)
SumSparseDays(cs, n) ==
    IF n = 0 THEN 0 ELSE SumOver(cs[n], DOMAIN cs[n]) + SumSparseDays(cs, n - 1)

SparseDaySeqs(k) ==
    UNION {{[i \in 1..n |-> [date |-> DateNames[i], cluster_counts |-> cs[i]]] :
              cs \in {c \in [1..n -> SparseCountMaps(k)] :
                         SumSparseDays(c, n) <= MaxFlowPapers}} :
           n \in 0..MaxDays}

SparseSnapshots ==
    UNION {{[clusters |-> SubSeq(ClusterNames, 1, k), colors |-> FlowColors,
             daily_data |-> days] : days \in SparseDaySeqs(k)} : k \in 0..MaxClusters}

\* pointer positions tried by the model: in every day's column the top edge
\* and the midpoint of each of that day's bands; one pixel left of the plot
\* the midpoint of each of the first day's bands; the bottom of the plot half
\* way across it; the canvas corner, which is outside the plot
BandMidY(pd, dims, v) ==
    RHalf(RAdd(YScale(pd, dims, v.y0), YScale(pd, dims, v.y1)))

PointerPositions(pd, dims) ==
    UNION {UNION {{<<XScale(pd, dims, pd.stackedData[i].date), YScale(pd, dims, v.y1)>>,
                   <<XScale(pd, dims, pd.stackedData[i].date), BandMidY(pd, dims, v)>>} :
                     v \in {pd.stackedData[i].values[j] : j \in 1..Len(pd.clusters)}} :
             i \in 1..Len(pd.stackedData)}
        \cup {<<RInt(MarginLeft - 1), BandMidY(pd, dims, pd.stackedData[1].values[j])>> :
                 j \in 1..Len(pd.clusters)}
        \cup {<<Rat(2 * MarginLeft + InnerWidth(dims), 2), RInt(dims.height - MarginBottom)>>,
              <<RInt(0), RInt(0)>>}

-----------------------------------------------------------------------------
(* ClusterGraph: constants                                                 *)
InitialGraphWidth  == 800
InitialGraphHeight == 600
ChargeStrength     == -600
LinkDistance       == 180
\* centering strengths in hundredths: 0.15 and 0.02
IsolatedStrength   == 15
ConnectedStrength  == 2

\* getNodeSize: 12 + (paperCount / maxPaperCount) * 28, enlarged by 1.4 or
\* shrunk by 0.75
BaseRadius    == 12
RadiusRange   == 28
EnlargeFactor == <<7, 5>>
ShrinkFactor  == <<3, 4>>
\* getLinkWidth: 1 + (sharedCount / maxLinkStrength) * 5, doubled
BaseLinkWidth   == 1
LinkWidthRange  == 5
HighlightColor  == "rgba(255, 210, 30, 0.8)"
LinkColor       == "rgba(100, 100, 120, 0.3)"
\* graphData.nodes.slice(0, 10)
GraphLegendLimit == 10
CollisionPadding == 40

\* container sizes reported by getBoundingClientRect
GraphSizes == {[width |-> 400, height |-> 400], [width |-> 800, height |-> 600]}

-----------------------------------------------------------------------------
(* ClusterGraph: derived data                                              *)

\* useMemo transformedData: a copy of every node and of every link
TransformedData(g) ==
    [nodes |-> [i \in 1..Len(g.nodes) |-> g.nodes[i]],
     links |-> [i \in 1..Len(g.links) |-> g.links[i]]]

\* as MaxPaperCount, but without the floor of 1
MaxPaperCountNoFloor(g) == MathMax([i \in 1..Len(g.nodes) |-> g.nodes[i].paperCount], 0)

\* Math.max(...graphData.nodes.map(n => n.paperCount), 1)
MaxPaperCount(g) == MathMax([i \in 1..Len(g.nodes) |-> g.nodes[i].paperCount], 1)

\* Math.max(...graphData.links.map(l => l.sharedCount), 1)
MaxLinkStrength(g) == MathMax([i \in 1..Len(g.links) |-> g.links[i].sharedCount], 1)

\* as ConnectedIds, but adding only the source of every link
ConnectedSourceIds(g) == {g.links[i].source : i \in 1..Len(g.links)}

\* connectedIds: every link adds its source and its target
ConnectedIds(g) ==
    {g.links[i].source : i \in 1..Len(g.links)} \cup {g.links[i].target : i \in 1..Len(g.links)}

\* isolatedNodeIds: the nodes whose id is not in connectedIds
IsolatedNodeIds(g) ==
    {g.nodes[i].id : i \in {j \in 1..Len(g.nodes) : g.nodes[j].id \notin ConnectedIds(g)}}

\* what the force effect's timer callback closes over
ForceClosure(g, dims) ==
    [dimensions      |-> dims,
     maxPaperCount   |-> MaxPaperCount(g),
     isolatedNodeIds |-> IsolatedNodeIds(g)]

\* the forces the timer callback installs
InstalledForces(closure) ==
    [charge          |-> ChargeStrength,
     linkDistance    |-> LinkDistance,
     collisionMax    |-> closure.maxPaperCount,
     centerX         |-> Rat(closure.dimensions.width, 2),
     centerY         |-> Rat(closure.dimensions.height, 2),
     isolatedNodeIds |-> closure.isolatedNodeIds]

\* the radius accessor of forceCollide:
\* 12 + ((node.paperCount || 1) / maxPaperCount) * 28, plus the padding
CollisionRadius(force, node) ==
    LET paperCount == IF node.paperCount = 0 THEN 1 ELSE node.paperCount
    IN  RAdd(Rat(12 * force.collisionMax + paperCount * 28, force.collisionMax),
             RInt(CollisionPadding))

\* the strength accessor of forceX and of forceY, in hundredths
CenterStrength(force, id) ==
    IF id \in force.isolatedNodeIds THEN IsolatedStrength ELSE ConnectedStrength

\* the force effect runs only for a snapshot with at least one node
SchedulesForces(td) == Len(td.nodes) > 0

-----------------------------------------------------------------------------
(* ClusterGraph: rendering rules and notifications                         *)
(* Sizes are exact rationals; the factors 1.4 and 0.75 are 7/5 and 3/4.    *)

\* baseSize = 12 + (node.paperCount / maxPaperCount) * 28
BaseSize(node, maxPaperCount) ==
    Rat(BaseRadius * maxPaperCount + node.paperCount * RadiusRange, maxPaperCount)

\* as GetNodeSize, but without the test for the selected node
GetNodeSizeHoverOnly(node, hovered, selected, maxPaperCount) ==
    LET baseSize       == BaseSize(node, maxPaperCount)
        isHovered      == hovered = node.id
        isOtherHovered == hovered # Null /\ hovered # node.id
    IN  IF isHovered THEN RMul(baseSize, EnlargeFactor)
        ELSE IF isOtherHovered THEN RMul(baseSize, ShrinkFactor)
        ELSE baseSize

\* getNodeSize, with hoveredNode, selectedNodeId and maxPaperCount as read
\* from the render it belongs to
GetNodeSize(node, hovered, selected, maxPaperCount) ==
    LET baseSize       == BaseSize(node, maxPaperCount)
        isHovered      == hovered = node.id
        isSelected     == selected = node.id
        isOtherHovered == hovered # Null /\ hovered # node.id
    IN  IF isHovered \/ isSelected THEN RMul(baseSize, EnlargeFactor)
        ELSE IF isOtherHovered THEN RMul(baseSize, ShrinkFactor)
        ELSE baseSize

\* getLinkWidth
GetLinkWidth(link, hovered, maxLinkStrength) ==
    LET baseWidth == Rat(BaseLinkWidth * maxLinkStrength + link.sharedCount * LinkWidthRange,
                         maxLinkStrength)
    IN  IF hovered = link.source \/ hovered = link.target
        THEN RMul(baseWidth, RInt(2))
        ELSE baseWidth

\* getLinkColor
GetLinkColor(link, hovered) ==
    IF hovered = link.source \/ hovered = link.target THEN HighlightColor ELSE LinkColor

\* the "Hovered node info" panel: the nodes it shows, none when hoveredNode
\* is null or empty
InfoPanel(g, hovered) ==
    IF hovered = Null \/ hovered = ""
    THEN <<>>
    ELSE SelectSeq(g.nodes, LAMBDA n : n.id = hovered)

\* what one render draws from graphData, hoveredNode and selectedNodeId
Rendering(g, hovered, selected) ==
    [nodeSize  |-> [i \in 1..Len(g.nodes) |->
                      GetNodeSize(g.nodes[i], hovered, selected, MaxPaperCount(g))],
     linkWidth |-> [i \in 1..Len(g.links) |->
                      GetLinkWidth(g.links[i], hovered, MaxLinkStrength(g))],
     linkColor |-> [i \in 1..Len(g.links) |-> GetLinkColor(g.links[i], hovered)],
     infoPanel |-> InfoPanel(g, hovered)]

\* as NodeRecord, but without the papers of the node
NodeRecordWithoutPapers(node) ==
    [id            |-> node.id,
     name          |-> node.name,
     paperCount    |-> node.paperCount,
     topTaskTags   |-> node.topTaskTags,
     topModalities |-> node.topModalities,
     paperIds      |-> <<>>]

\* the record handleNodeClick and handleNodeHover hand to the host
NodeRecord(node) ==
    [id            |-> node.id,
     name          |-> node.name,
     paperCount    |-> node.paperCount,
     topTaskTags   |-> node.topTaskTags,
     topModalities |-> node.topModalities,
     paperIds      |-> node.paperIds]

\* node?.id || null, for node = <<>> (null) or <<record>>
HoveredId(node) == IF node = <<>> \/ node[1].id = "" THEN Null ELSE node[1].id

\* graphData.nodes.slice(0, 10)
GraphLegendNodes(g) == {g.nodes[i] : i \in 1..Min2(Len(g.nodes), GraphLegendLimit)}

\* the node objects ForceGraph2D passes to onNodeHover and onNodeClick
CanvasNodes(td) == {td.nodes[i] : i \in 1..Len(td.nodes)}

-----------------------------------------------------------------------------
(* ClusterGraph: inputs                                                    *)

\* sharedPaperIds is carried along unread by the operations modelled here
\* and is left out
RECURSIVE SumPapers(_, _)
SumPapers(pc, k) == IF k = 0 THEN 0 ELSE pc[k] + SumPapers(pc, k - 1)

\* the node with the i-th id and n papers
ClusterNode(i, n) ==
    [id            |-> NodeIds[i],
     name          |-> NodeLabels[i],
     paperCount    |-> n,
     topTaskTags   |-> <<"text-generation">>,
     topModalities |-> <<"text">>,
     paperIds      |-> [j \in 1..n |-> 100 * i + j]]

NodeSeqs ==
    UNION {{[i \in 1..k |-> ClusterNode(i, pc[i])] :
              pc \in {c \in [1..k -> 0..MaxPapers] : SumPapers(c, k) <= MaxPapers}} :
           k \in 0..MaxNodes}

\* link endpoints range over one id more than the largest snapshot has
\* nodes, so every snapshot can hold a link to an id that is not a node
EndpointIds == {NodeIds[i] : i \in 1..(MaxNodes + 1)}

LinkRecords ==
    {l \in [source : EndpointIds, target : EndpointIds, sharedCount : 0..MaxShared] :
        l.source # l.target}

LinkSeqs == UNION {[1..n -> LinkRecords] : n \in 0..MaxLinks}

GraphSnapshots == {[nodes |-> ns, links |-> ls] : ns \in NodeSeqs, ls \in LinkSeqs}

\* the snapshots whose links all join two nodes of the snapshot, from the
\* earlier to the later node of the list, with at least one shared paper and
\* at most one link for a pair of nodes, the links in the order of their pairs
JoinsNodes(g, link) ==
    \E i, j \in 1..Len(g.nodes) :
        i < j /\ link.source = g.nodes[i].id /\ link.target = g.nodes[j].id

PairRank(link) ==
    LET idx(id) == CHOOSE i \in 1..Len(NodeIds) : NodeIds[i] = id
    IN  idx(link.source) * (Len(NodeIds) + 1) + idx(link.target)

ConnectedSnapshots ==
    {g \in GraphSnapshots :
        /\ \A i \in 1..Len(g.links) : JoinsNodes(g, g.links[i]) /\ g.links[i].sharedCount > 0
        /\ \A i, j \in 1..Len(g.links) :
              i < j => PairRank(g.links[i]) < PairRank(g.links[j])}

-----------------------------------------------------------------------------
(* Idle values of the component that is not mounted                        *)
NoGraph == [nodes |-> <<>>, links |-> <<>>]

\* the months the selector offers
MaxMonths == 2
MonthNames == <<"2024-01", "2024-02", "2024-03", "2024-04">>
Months == {MonthNames[i] : i \in 1..MaxMonths}

\* App's useState initial values; what was fetched is written as <<>> (null,
\* or the empty list) or <<month>>, the response for that month
AppInitial(month) ==
    [selectedMonth |-> month, summary |-> <<>>, allPapers |-> <<>>,
     filteredPapers |-> <<>>, graphData |-> <<>>, flowData |-> <<>>,
     isLoading |-> FALSE, error |-> Null, isIndexing |-> FALSE, indexStatus |-> ""]

\* a host of which the model keeps no state
HostIdle ==
    /\ lastNodeHover = <<>>
    /\ app = AppInitial(MonthNames[1])
    /\ loads = <<>>
    /\ reindex = <<>>

FlowIdle ==
    /\ flowData = [clusters |-> <<>>, colors |-> FlowColors, daily_data |-> <<>>]
    /\ processedData = <<>>
    /\ hasOnClusterClick = FALSE
    /\ tooltip = <<>>
    /\ hoveredCluster = Null
    /\ selectedCluster = Null

\* useState initial values of hoveredNode and the props of a host that
\* selects no node and passes no onNodeHover
HoverIdle ==
    /\ hoveredNode = Null
    /\ cursor = "grab"
    /\ selectedNodeId = Null
    /\ hasOnNodeHover = FALSE

\* useState initial value of isFullscreen, and a platform that is not in
\* fullscreen and has nothing under way
FullscreenIdle ==
    /\ isFullscreen = FALSE
    /\ fullscreenElement = FALSE
    /\ promises = <<>>
    /\ fullscreenEvents = 0
    /\ logged = <<>>

GraphIdle ==
    /\ graphData = NoGraph
    /\ transformedData = NoGraph
    /\ forceTimers = <<>>
    /\ forces = <<>>
    /\ reheated = FALSE
    /\ positions = "initial"
    /\ HoverIdle
    /\ FullscreenIdle

-----------------------------------------------------------------------------
(* FlowVisualization: state after mount and handlers                       *)

\* useState initial values, then the mount effect's handleResize, which reads
\* the container only when the container is rendered
InitFlow ==
    /\ view = "flow"
    /\ HostIdle
    /\ flowData \in FlowSnapshots
    /\ processedData = ProcessedData(flowData)
    /\ hasOnClusterClick \in BOOLEAN
    /\ \E h \in FlowHeights :
         \E w \in FlowWidths :
            dimensions = [width  |-> IF CanvasRendered(processedData) THEN w ELSE InitialWidth,
                          height |-> h]
    /\ tooltip = <<>>
    /\ hoveredCluster = Null
    /\ selectedCluster = Null
    /\ emitted = <<>>
    /\ GraphIdle

\* canvas onMouseMove
MouseMove(x, y) ==
    /\ view = "flow"
    /\ CanvasRendered(processedData)
    /\ LET hit == HitTest(flowData, processedData[1], dimensions, tooltip, x, y)
       IN  /\ hoveredCluster' = hit.hoveredCluster
           /\ tooltip' = hit.tooltip
    /\ emitted' = <<>>
    /\ UNCHANGED <<hostVars, view, dimensions, flowData, processedData, hasOnClusterClick, selectedCluster, graphVars>>

\* as MouseLeave, but clearing only the tooltip
MouseLeaveKeepsHover ==
    /\ view = "flow"
    /\ CanvasRendered(processedData)
    /\ tooltip' = <<>>
    /\ emitted' = <<>>
    /\ UNCHANGED <<hostVars, view, dimensions, flowData, processedData, hasOnClusterClick,
                   hoveredCluster, selectedCluster, graphVars>>

\* canvas onMouseLeave
MouseLeave ==
    /\ view = "flow"
    /\ CanvasRendered(processedData)
    /\ tooltip' = <<>>
    /\ hoveredCluster' = Null
    /\ emitted' = <<>>
    /\ UNCHANGED <<hostVars, view, dimensions, flowData, processedData, hasOnClusterClick, selectedCluster, graphVars>>

\* as HandleClick, but with the notification outside the hovered-cluster test
HandleClickNotifyAlways ==
    /\ view = "flow"
    /\ CanvasRendered(processedData)
    /\ selectedCluster' = IF hoveredCluster # Null
                          THEN ToggleSelected(selectedCluster, hoveredCluster)
                          ELSE selectedCluster
    /\ emitted' = IF hasOnClusterClick /\ tooltip # <<>>
                  THEN <<[cluster |-> hoveredCluster, date |-> tooltip[1].date]>>
                  ELSE <<>>
    /\ UNCHANGED <<hostVars, view, dimensions, flowData, processedData, hasOnClusterClick, tooltip, hoveredCluster, graphVars>>

\* canvas onClick
HandleClick ==
    /\ view = "flow"
    /\ CanvasRendered(processedData)
    /\ IF hoveredCluster # Null
       THEN /\ selectedCluster' = ToggleSelected(selectedCluster, hoveredCluster)
            /\ emitted' = IF hasOnClusterClick /\ tooltip # <<>>
                          THEN <<[cluster |-> hoveredCluster, date |-> tooltip[1].date]>>
                          ELSE <<>>
       ELSE /\ selectedCluster' = selectedCluster
            /\ emitted' = <<>>
    /\ UNCHANGED <<hostVars, view, dimensions, flowData, processedData, hasOnClusterClick, tooltip, hoveredCluster, graphVars>>

\* legend item onMouseEnter
LegendEnter(cluster) ==
    /\ view = "flow"
    /\ CanvasRendered(processedData)
    /\ cluster \in LegendClusters(flowData)
    /\ hoveredCluster' = cluster
    /\ emitted' = <<>>
    /\ UNCHANGED <<hostVars, view, dimensions, flowData, processedData, hasOnClusterClick, tooltip, selectedCluster, graphVars>>

\* legend item onMouseLeave
LegendLeave(cluster) ==
    /\ view = "flow"
    /\ CanvasRendered(processedData)
    /\ cluster \in LegendClusters(flowData)
    /\ hoveredCluster' = Null
    /\ emitted' = <<>>
    /\ UNCHANGED <<hostVars, view, dimensions, flowData, processedData, hasOnClusterClick, tooltip, selectedCluster, graphVars>>

\* as LegendClick, but notifying the host as the canvas click does
LegendClickNotifies(cluster) ==
    /\ view = "flow"
    /\ CanvasRendered(processedData)
    /\ cluster \in LegendClusters(flowData)
    /\ selectedCluster' = ToggleSelected(selectedCluster, cluster)
    /\ emitted' = IF hasOnClusterClick /\ tooltip # <<>>
                  THEN <<[cluster |-> cluster, date |-> tooltip[1].date]>>
                  ELSE <<>>
    /\ UNCHANGED <<hostVars, view, dimensions, flowData, processedData, hasOnClusterClick, tooltip, hoveredCluster, graphVars>>

\* legend item onClick
LegendClick(cluster) ==
    /\ view = "flow"
    /\ CanvasRendered(processedData)
    /\ cluster \in LegendClusters(flowData)
    /\ selectedCluster' = ToggleSelected(selectedCluster, cluster)
    /\ emitted' = <<>>
    /\ UNCHANGED <<hostVars, view, dimensions, flowData, processedData, hasOnClusterClick, tooltip, hoveredCluster, graphVars>>

\* window resize: handleResize of the flow view
FlowResize(w) ==
    /\ view = "flow"
    /\ CanvasRendered(processedData)
    /\ dimensions' = [width |-> w, height |-> dimensions.height]
    /\ emitted' = <<>>
    /\ UNCHANGED <<hostVars, view, flowVars, graphVars>>

PointerMoves ==
    /\ CanvasRendered(processedData)
    /\ \E p \in PointerPositions(processedData[1], dimensions) : MouseMove(p[1], p[2])

LegendEnters == \E c \in LegendClusters(flowData) : LegendEnter(c)
LegendLeaves == \E c \in LegendClusters(flowData) : LegendLeave(c)
LegendClicks == \E c \in LegendClusters(flowData) : LegendClick(c)
FlowResizes  == \E w \in FlowWidths : FlowResize(w)

NextFlow ==
    \/ PointerMoves
    \/ MouseLeave
    \/ HandleClick
    \/ LegendEnters
    \/ LegendLeaves
    \/ LegendClicks
    \/ FlowResizes

SpecFlow == InitFlow /\ [][NextFlow]_vars

\* FlowVisualization mounted on a snapshot whose days name only some
\* clusters, and the handlers that read the stacked values
InitStack ==
    /\ view = "flow"
    /\ HostIdle
    /\ flowData \in SparseSnapshots
    /\ processedData = ProcessedData(flowData)
    /\ hasOnClusterClick = FALSE
    /\ \E h \in FlowHeights :
         \E w \in FlowWidths :
            dimensions = [width  |-> IF CanvasRendered(processedData) THEN w ELSE InitialWidth,
                          height |-> h]
    /\ tooltip = <<>>
    /\ hoveredCluster = Null
    /\ selectedCluster = Null
    /\ emitted = <<>>
    /\ GraphIdle

NextStack ==
    \/ PointerMoves
    \/ MouseLeave
    \/ FlowResizes

SpecStack == InitStack /\ [][NextStack]_vars

-----------------------------------------------------------------------------
(* ClusterGraph: state after mount and handlers                            *)

\* useState initial values and the memos; then the mount effects in order:
\* handleResize reads the container, the force effect schedules a timer with
\* the initial 800x600 dimensions, and the re-render with the measured
\* dimensions schedules a second one
MountedGraph(snapshots, sizes) ==
    /\ view = "graph"
    /\ HostIdle
    /\ graphData \in snapshots
    /\ transformedData = TransformedData(graphData)
    /\ dimensions \in sizes
    /\ forceTimers =
          IF SchedulesForces(transformedData)
          THEN <<ForceClosure(graphData, [width |-> InitialGraphWidth,
                                          height |-> InitialGraphHeight]),
                 ForceClosure(graphData, dimensions)>>
          ELSE <<>>
    /\ forces = <<>>
    /\ reheated = FALSE
    /\ positions = "initial"
    /\ hoveredNode = Null
    /\ cursor = "grab"
    /\ FullscreenIdle
    /\ emitted = <<>>
    /\ FlowIdle

InitGraph ==
    /\ MountedGraph(GraphSnapshots, GraphSizes)
    /\ selectedNodeId = Null
    /\ hasOnNodeHover = FALSE

\* as GraphResize, but rebuilding the node and link objects, which start
\* again from their initial positions
GraphResizeRebuilds(size) ==
    /\ view = "graph"
    /\ Len(forceTimers) < MaxTimers
    /\ dimensions' = size
    /\ transformedData' = TransformedData(graphData)
    /\ positions' = "initial"
    /\ forceTimers' = IF SchedulesForces(transformedData)
                      THEN Append(forceTimers, ForceClosure(graphData, size))
                      ELSE forceTimers
    /\ emitted' = <<>>
    /\ UNCHANGED <<hostVars, view, graphData, forces, reheated, hoverVars, fullscreenVars, flowVars>>

\* window resize: handleResize stores a new dimensions object, so the force
\* effect runs again and schedules another timer
GraphResize(size) ==
    /\ view = "graph"
    /\ Len(forceTimers) < MaxTimers
    /\ dimensions' = size
    /\ forceTimers' = IF SchedulesForces(transformedData)
                      THEN Append(forceTimers, ForceClosure(graphData, size))
                      ELSE forceTimers
    /\ emitted' = <<>>
    /\ UNCHANGED <<hostVars, view, graphData, transformedData, forces, reheated, positions,
                   hoverVars, fullscreenVars, flowVars>>

\* as ForceTimerFires, but without the final d3ReheatSimulation call
ForceTimerFiresCold ==
    /\ view = "graph"
    /\ forceTimers # <<>>
    /\ forces' = <<InstalledForces(Head(forceTimers))>>
    /\ reheated' = FALSE
    /\ forceTimers' = Tail(forceTimers)
    /\ emitted' = <<>>
    /\ UNCHANGED <<hostVars, view, dimensions, graphData, transformedData, positions,
                   hoverVars, fullscreenVars, flowVars>>

\* the 200 ms timer of the force effect fires; equal delays fire in order.
\* The callback installs the forces, which leaves them not yet applied by
\* the simulation, and then calls d3ReheatSimulation
ForceTimerFires ==
    /\ view = "graph"
    /\ forceTimers # <<>>
    /\ forces' = <<InstalledForces(Head(forceTimers))>>
    /\ reheated' = TRUE
    /\ forceTimers' = Tail(forceTimers)
    /\ emitted' = <<>>
    /\ UNCHANGED <<hostVars, view, dimensions, graphData, transformedData, positions,
                   hoverVars, fullscreenVars, flowVars>>

GraphResizes == \E size \in GraphSizes : GraphResize(size)

NextGraph ==
    \/ GraphResizes
    \/ ForceTimerFires

SpecGraph == InitGraph /\ [][NextGraph]_vars

-----------------------------------------------------------------------------
(* ClusterGraph: snapshot changes and the running simulation               *)

\* snapshots of zero to MaxNodes nodes without papers and without links
LayoutSnapshots ==
    {[nodes |-> [i \in 1..n |-> ClusterNode(i, 0)], links |-> <<>>] : n \in 0..MaxNodes}

\* the host passes a new graphData: transformedData is a new set of node and
\* link objects, which have no positions yet, and its change runs the force
\* effect again with the dimensions of that render
SetGraphData(g) ==
    /\ view = "graph"
    /\ Len(forceTimers) < MaxTimers
    /\ graphData' = g
    /\ transformedData' = TransformedData(g)
    /\ positions' = "initial"
    /\ forceTimers' = IF SchedulesForces(TransformedData(g))
                      THEN Append(forceTimers, ForceClosure(g, dimensions))
                      ELSE forceTimers
    /\ emitted' = <<>>
    /\ UNCHANGED <<hostVars, view, dimensions, forces, reheated, hoverVars, fullscreenVars, flowVars>>

\* the fields the solver writes on the node objects it is given
SimulationFields == {"x", "y", "vx", "vy"}

\* a reference to the node object with the given id, as the solver stores it
\* in link.source and link.target in place of the id
NodeObjects == <<"{A}", "{B}", "{C}", "{D}">>

NodeObject(end) ==
    IF \E i \in 1..Len(NodeIds) : NodeIds[i] = end
    THEN NodeObjects[CHOOSE i \in 1..Len(NodeIds) : NodeIds[i] = end]
    ELSE end

\* the node and link objects after the solver has worked on them
SolverWrites(data) ==
    [nodes |-> [i \in 1..Len(data.nodes) |->
                  [f \in DOMAIN data.nodes[i] \cup SimulationFields |->
                      IF f \in SimulationFields THEN 0 ELSE data.nodes[i][f]]],
     links |-> [i \in 1..Len(data.links) |->
                  [data.links[i] EXCEPT !.source = NodeObject(@),
                                        !.target = NodeObject(@)]]]

\* as SpreadCopies, but the memo handing on the snapshot's own objects
SpreadAliases == FALSE

\* ({ ...node, id: node.id }) and ({ ...link, ... }) are new objects
SpreadCopies == TRUE

\* the simulation moves the nodes of transformedData: it writes to the
\* objects ForceGraph2D was given, which are the host's only if the memo did
\* not copy them
SimulationTick ==
    /\ view = "graph"
    /\ SchedulesForces(transformedData)
    /\ positions' = "moved"
    /\ transformedData' = SolverWrites(transformedData)
    /\ graphData' = IF SpreadCopies THEN graphData ELSE SolverWrites(graphData)
    /\ emitted' = <<>>
    /\ UNCHANGED <<hostVars, view, dimensions, forceTimers, forces,
                   reheated, hoverVars, fullscreenVars, flowVars>>

SnapshotChanges == \E g \in LayoutSnapshots : SetGraphData(g)

-----------------------------------------------------------------------------
(* ClusterGraph: hover, click and legend                                   *)

\* ForceGraph2D onNodeHover: handleNodeHover(node), node = <<>> for the
\* empty canvas
HandleNodeHover(node) ==
    /\ view = "graph"
    /\ hoveredNode' = HoveredId(node)
    /\ emitted' = IF hasOnNodeHover
                  THEN <<[callback |-> "onNodeHover",
                          node     |-> IF node # <<>> THEN <<NodeRecord(node[1])>> ELSE <<>>]>>
                  ELSE <<>>
    /\ lastNodeHover' = IF hasOnNodeHover
                        THEN <<IF node # <<>> THEN <<NodeRecord(node[1])>> ELSE <<>>>>
                        ELSE lastNodeHover
    /\ cursor' = IF node # <<>> THEN "pointer" ELSE "grab"
    /\ logged' = <<>>
    /\ UNCHANGED <<appVars, view, dimensions, layoutVars, selectedNodeId, hasOnNodeHover,
                   isFullscreen, fullscreenElement, promises, fullscreenEvents, flowVars>>

\* ForceGraph2D onNodeClick and the legend entry's onClick: handleNodeClick
HandleNodeClick(node) ==
    /\ view = "graph"
    /\ emitted' = <<[callback |-> "onNodeClick", node |-> <<NodeRecord(node)>>]>>
    /\ logged' = <<>>
    /\ UNCHANGED <<hostVars, view, dimensions, layoutVars, hoverVars, isFullscreen,
                   fullscreenElement, promises, fullscreenEvents, flowVars>>

\* as GraphLegendEnter, but keeping a legend hover state of its own, which
\* no rendering rule reads
GraphLegendEnterApart(node) ==
    /\ view = "graph"
    /\ node \in GraphLegendNodes(graphData)
    /\ emitted' = <<>>
    /\ logged' = <<>>
    /\ UNCHANGED <<hostVars, view, dimensions, layoutVars, hoverVars, isFullscreen,
                   fullscreenElement, promises, fullscreenEvents, flowVars>>

\* legend entry onMouseEnter: setHoveredNode(node.id)
GraphLegendEnter(node) ==
    /\ view = "graph"
    /\ node \in GraphLegendNodes(graphData)
    /\ hoveredNode' = node.id
    /\ emitted' = <<>>
    /\ logged' = <<>>
    /\ UNCHANGED <<hostVars, view, dimensions, layoutVars, cursor, selectedNodeId, hasOnNodeHover,
                   isFullscreen, fullscreenElement, promises, fullscreenEvents, flowVars>>

\* legend entry onMouseLeave: setHoveredNode(null)
GraphLegendLeave(node) ==
    /\ view = "graph"
    /\ node \in GraphLegendNodes(graphData)
    /\ hoveredNode' = Null
    /\ emitted' = <<>>
    /\ logged' = <<>>
    /\ UNCHANGED <<hostVars, view, dimensions, layoutVars, cursor, selectedNodeId, hasOnNodeHover,
                   isFullscreen, fullscreenElement, promises, fullscreenEvents, flowVars>>

\* the host passes another selectedNodeId
SelectedNodeChanges(id) ==
    /\ view = "graph"
    /\ selectedNodeId' = id
    /\ selectedNodeId' # selectedNodeId
    /\ emitted' = <<>>
    /\ logged' = <<>>
    /\ UNCHANGED <<hostVars, view, dimensions, layoutVars, hoveredNode, cursor, hasOnNodeHover,
                   isFullscreen, fullscreenElement, promises, fullscreenEvents, flowVars>>

CanvasHovers ==
    \E node \in {<<>>} \cup {<<n>> : n \in CanvasNodes(transformedData)} : HandleNodeHover(node)
CanvasClicks       == \E node \in CanvasNodes(transformedData) : HandleNodeClick(node)
GraphLegendClicks  ==
    \E node \in GraphLegendNodes(graphData) : HandleNodeClick(node) /\ cursor' = cursor
GraphLegendEnters  == \E node \in GraphLegendNodes(graphData) : GraphLegendEnter(node)
GraphLegendLeaves  == \E node \in GraphLegendNodes(graphData) : GraphLegendLeave(node)
SelectedNodeChangesAny ==
    \E id \in {Null} \cup {graphData.nodes[i].id : i \in 1..Len(graphData.nodes)} :
        SelectedNodeChanges(id)

\* a mounted graph view of a host that may pass onNodeHover
InitGraphView ==
    /\ MountedGraph(ConnectedSnapshots,
                    {[width |-> InitialGraphWidth, height |-> InitialGraphHeight]})
    /\ selectedNodeId = Null
    /\ hasOnNodeHover \in BOOLEAN

NextGraphView ==
    \/ CanvasHovers
    \/ CanvasClicks
    \/ GraphLegendClicks
    \/ GraphLegendEnters
    \/ GraphLegendLeaves
    \/ SelectedNodeChangesAny

SpecGraphView == InitGraphView /\ [][NextGraphView]_vars

-----------------------------------------------------------------------------
(* ClusterGraph: fullscreen                                                *)
(*                                                                         *)
(* The platform is the environment: it settles the promise of a request,   *)
(* changes document.fullscreenElement and queues a fullscreenchange event. *)
(* The reactions registered with .then and .catch and the event listener   *)
(* are jobs of their own, run later in any order.                          *)

ErrorEntering == "Error entering fullscreen:"
ErrorExiting  == "Error exiting fullscreen:"

\* the sequence without its i-th element
RemoveAt(seq, i) == SubSeq(seq, 1, i - 1) \o SubSeq(seq, i + 1, Len(seq))

\* the button's onClick: the container is mounted, so the early return is
\* not taken; the request made depends on document.fullscreenElement
ToggleFullscreen ==
    /\ view = "graph"
    /\ Len(promises) < MaxRequests
    /\ promises' = Append(promises,
                          [op    |-> IF fullscreenElement THEN "exit" ELSE "enter",
                           state |-> "pending"])
    /\ logged' = <<>>
    /\ emitted' = <<>>
    /\ UNCHANGED <<hostVars, view, dimensions, layoutVars, hoverVars, isFullscreen,
                   fullscreenElement, fullscreenEvents, flowVars>>

\* the platform grants the i-th promise, a request to enter
PlatformGrants(i) ==
    /\ view = "graph"
    /\ promises[i] = [op |-> "enter", state |-> "pending"]
    /\ fullscreenElement \/ fullscreenEvents < MaxEvents
    /\ promises' = [promises EXCEPT ![i].state = "fulfilled"]
    /\ fullscreenElement' = TRUE
    /\ fullscreenEvents' = IF fullscreenElement THEN fullscreenEvents
                                                ELSE fullscreenEvents + 1
    /\ logged' = <<>>
    /\ emitted' = <<>>
    /\ UNCHANGED <<hostVars, view, dimensions, layoutVars, hoverVars, isFullscreen, flowVars>>

\* the platform denies the i-th promise, a request to enter
PlatformDenies(i) ==
    /\ view = "graph"
    /\ promises[i] = [op |-> "enter", state |-> "pending"]
    /\ promises' = [promises EXCEPT ![i].state = "rejected"]
    /\ logged' = <<>>
    /\ emitted' = <<>>
    /\ UNCHANGED <<hostVars, view, dimensions, layoutVars, hoverVars, isFullscreen,
                   fullscreenElement, fullscreenEvents, flowVars>>

\* the platform carries out the i-th promise, a request to exit; when the
\* document has left fullscreen in the meantime the promise is settled
\* either way and nothing else happens
PlatformExits(i) ==
    /\ view = "graph"
    /\ promises[i] = [op |-> "exit", state |-> "pending"]
    /\ ~fullscreenElement \/ fullscreenEvents < MaxEvents
    /\ IF fullscreenElement
       THEN /\ promises' = [promises EXCEPT ![i].state = "fulfilled"]
            /\ fullscreenEvents' = fullscreenEvents + 1
       ELSE /\ \E outcome \in {"fulfilled", "rejected"} :
                  promises' = [promises EXCEPT ![i].state = outcome]
            /\ fullscreenEvents' = fullscreenEvents
    /\ fullscreenElement' = FALSE
    /\ logged' = <<>>
    /\ emitted' = <<>>
    /\ UNCHANGED <<hostVars, view, dimensions, layoutVars, hoverVars, isFullscreen, flowVars>>

\* the user leaves fullscreen with Escape
PlatformLeaves ==
    /\ view = "graph"
    /\ fullscreenElement
    /\ fullscreenEvents < MaxEvents
    /\ fullscreenElement' = FALSE
    /\ fullscreenEvents' = fullscreenEvents + 1
    /\ logged' = <<>>
    /\ emitted' = <<>>
    /\ UNCHANGED <<hostVars, view, dimensions, layoutVars, hoverVars, isFullscreen, promises, flowVars>>

\* the .then or .catch callback of the i-th promise runs
PromiseReaction(i) ==
    /\ view = "graph"
    /\ promises[i].state # "pending"
    /\ IF promises[i].state = "fulfilled"
       THEN /\ isFullscreen' = (promises[i].op = "enter")
            /\ logged' = <<>>
       ELSE /\ isFullscreen' = isFullscreen
            /\ logged' = <<IF promises[i].op = "enter" THEN ErrorEntering ELSE ErrorExiting>>
    /\ promises' = RemoveAt(promises, i)
    /\ emitted' = <<>>
    /\ UNCHANGED <<hostVars, view, dimensions, layoutVars, hoverVars, fullscreenElement,
                   fullscreenEvents, flowVars>>

\* the fullscreenchange listener: setIsFullscreen(!!document.fullscreenElement)
HandleFullscreenChange ==
    /\ view = "graph"
    /\ fullscreenEvents > 0
    /\ isFullscreen' = fullscreenElement
    /\ fullscreenEvents' = fullscreenEvents - 1
    /\ logged' = <<>>
    /\ emitted' = <<>>
    /\ UNCHANGED <<hostVars, view, dimensions, layoutVars, hoverVars, fullscreenElement,
                   promises, flowVars>>

PlatformSettles ==
    \E i \in 1..Len(promises) : PlatformGrants(i) \/ PlatformDenies(i) \/ PlatformExits(i)

PromiseReactions == \E i \in 1..Len(promises) : PromiseReaction(i)

NextFullscreen ==
    \/ ToggleFullscreen
    \/ PlatformSettles
    \/ PlatformLeaves
    \/ PromiseReactions
    \/ HandleFullscreenChange

SpecFullscreen == InitGraph /\ [][NextFullscreen]_vars

-----------------------------------------------------------------------------
(* Either component, mounted on its own                                    *)
Init == InitFlow \/ InitGraph
Next == NextFlow \/ NextGraph
Spec == Init /\ [][Next]_vars

-----------------------------------------------------------------------------
(* Properties of the flow view                                             *)

PlotHasArea == InnerWidth(dimensions) > 0 /\ InnerHeight(dimensions) > 0

\* the input count of cluster c on the day with 1-based index i
InputCount(i, c) == CountOf(flowData.daily_data[i].cluster_counts, c)

\* C1: in every StackedDay the first y0 is 0, every band has
\* y1 - y0 = count, each band starts where the previous one ends, total is the
\* last y1, and nothing is negative.
C1_StackedDayInvariant ==
    processedData # <<>> =>
        \A i \in 1..Len(processedData[1].stackedData) :
            LET day == processedData[1].stackedData[i]
                vs  == day.values
                n   == Len(vs)
            IN  /\ n > 0 => vs[1].y0 = 0
                /\ \A j \in 1..n : vs[j].y1 - vs[j].y0 = vs[j].count
                /\ \A j \in 1..(n - 1) : vs[j + 1].y0 = vs[j].y1
                /\ n > 0 => day.total = vs[n].y1
                /\ \A j \in 1..n : vs[j].y0 >= 0 /\ vs[j].y1 >= 0 /\ vs[j].count >= 0
                /\ day.total >= 0

C1_Witness ==
    /\ processedData # <<>>
    /\ \E i \in 1..Len(processedData[1].stackedData) :
          LET vs == processedData[1].stackedData[i].values
          IN  Len(vs) >= 2 /\ vs[1].count > 0 /\ vs[2].count > 0

\* what handleMouseMove writes for a pointer at the midpoint of the band of
\* cluster j on day i is what C2 says: that cluster hovered and a tooltip
\* with that day's date
MidpointHits(i, j) ==
    LET pd  == processedData[1]
        day == pd.stackedData[i]
        v   == day.values[j]
        hit == HitTest(flowData, pd, dimensions, tooltip,
                       XScale(pd, dimensions, day.date), BandMidY(pd, dimensions, v))
    IN  /\ hit.hoveredCluster = v.cluster
        /\ hit.tooltip # <<>>
        /\ hit.tooltip[1].date = day.date

\* C2 as stated: for every day and cluster with count > 0, a pointer move to
\* the band's midpoint at the day's column hovers exactly that cluster and
\* shows a tooltip with that day's date.
C2_Original ==
    view = "flow" /\ processedData # <<>> =>
        \A i \in 1..Len(processedData[1].stackedData) :
            \A j \in 1..Len(processedData[1].clusters) :
                processedData[1].stackedData[i].values[j].count > 0 => MidpointHits(i, j)

\* C2 amended: the same, whenever the plot's inner width and inner height
\* are positive.
C2_MidpointHitsInsidePlot ==
    view = "flow" /\ processedData # <<>> /\ PlotHasArea =>
        \A i \in 1..Len(processedData[1].stackedData) :
            \A j \in 1..Len(processedData[1].clusters) :
                processedData[1].stackedData[i].values[j].count > 0 => MidpointHits(i, j)

\* a single day, and the pointer rests on the midpoint of the second band
C2_Witness ==
    /\ processedData # <<>>
    /\ PlotHasArea
    /\ Len(processedData[1].dates) = 1
    /\ tooltip # <<>>
    /\ Len(processedData[1].clusters) >= 2
    /\ LET v == processedData[1].stackedData[1].values[2]
       IN  /\ v.count > 0
           /\ hoveredCluster = v.cluster
           /\ tooltip[1].cluster = v.cluster
           /\ tooltip[1].x = XScale(processedData[1], dimensions, processedData[1].dates[1])
           /\ tooltip[1].y = BandMidY(processedData[1], dimensions, v)

\* C3: whatever the pointer position, a cluster that handleMouseMove hovers
\* has a positive count on the day under the pointer.
C3_ZeroCountNeverHit ==
    view = "flow" /\ processedData # <<>> =>
        \A p \in PointerPositions(processedData[1], dimensions) :
            LET hit == HitTest(flowData, processedData[1], dimensions, tooltip, p[1], p[2])
                idx == ClampedIdx(processedData[1], dimensions, p[1])
            IN  hit.hoveredCluster # Null =>
                    /\ idx # <<>>
                    /\ idx[1] + 1 \in 1..Len(flowData.daily_data)
                    /\ InputCount(idx[1] + 1, hit.hoveredCluster) > 0

\* the pointer rests exactly on a band of zero height and another cluster,
\* one with papers on that day, is hovered
C3_Witness ==
    /\ processedData # <<>>
    /\ tooltip # <<>>
    /\ hoveredCluster = tooltip[1].cluster
    /\ \E i \in 1..Len(processedData[1].stackedData) :
          /\ processedData[1].stackedData[i].date = tooltip[1].date
          /\ InputCount(i, hoveredCluster) > 0
          /\ \E j \in 1..Len(processedData[1].clusters) :
                LET v == processedData[1].stackedData[i].values[j]
                IN  /\ v.count = 0
                    /\ v.cluster # hoveredCluster
                    /\ tooltip[1].y = YScale(processedData[1], dimensions, v.y1)

\* C4: a canvas click while c is hovered, and a legend click on c, select c
\* when another or no cluster is selected and clear the selection when c is
\* selected; the selection is always nothing or one cluster of the snapshot.
C4_SelectionToggles ==
    [][/\ HandleClick /\ hoveredCluster # Null =>
             selectedCluster' = IF selectedCluster = hoveredCluster THEN Null ELSE hoveredCluster
       /\ \A c \in LegendClusters(flowData) :
             LegendClick(c) =>
                 selectedCluster' = IF selectedCluster = c THEN Null ELSE c
       /\ selectedCluster' \in {Null} \cup {flowData.clusters[k] : k \in 1..Len(flowData.clusters)}]_vars

\* a legend item is hovered and was clicked: its cluster is selected
C4_Witness ==
    /\ selectedCluster # Null
    /\ hoveredCluster = selectedCluster
    /\ tooltip = <<>>

\* C5: with no days the view shows the "no data" message and no canvas, and
\* no step changes tooltip, hoveredCluster or selectedCluster or notifies
\* the host.
C5_EmptyDataIsInert ==
    /\ [](view = "flow" /\ Len(flowData.daily_data) = 0 => ~CanvasRendered(processedData))
    /\ [][view = "flow" /\ Len(flowData.daily_data) = 0 =>
             /\ UNCHANGED <<tooltip, hoveredCluster, selectedCluster>>
             /\ emitted' = <<>>]_vars

\* no days, but clusters that a legend would list; the container was never
\* measured
C5_Witness ==
    /\ view = "flow"
    /\ Len(flowData.daily_data) = 0
    /\ Len(flowData.clusters) > 0
    /\ processedData = <<>>
    /\ dimensions.width = InitialWidth
    /\ tooltip = <<>> /\ hoveredCluster = Null /\ selectedCluster = Null

\* C11: a click on a legend item toggles the selection for its cluster,
\* notifies nobody and leaves hoveredCluster and tooltip as they were; the
\* host is notified by no step other than a canvas click.
C11_LegendClickSelectsOnly ==
    [][/\ \A c \in LegendClusters(flowData) :
             LegendClick(c) =>
                 /\ selectedCluster' = IF selectedCluster = c THEN Null ELSE c
                 /\ emitted' = <<>>
                 /\ UNCHANGED <<hoveredCluster, tooltip>>
       /\ view = "flow" /\ emitted' # <<>> => HandleClick]_vars

\* the callback is supplied and a tooltip is showing for a hovered band,
\* while the selected cluster is one that has no papers on any day, so that
\* no band of it can be hit
C11_Witness ==
    /\ view = "flow"
    /\ hasOnClusterClick
    /\ tooltip # <<>>
    /\ hoveredCluster = tooltip[1].cluster
    /\ selectedCluster # Null
    /\ selectedCluster # hoveredCluster
    /\ \A i \in 1..Len(flowData.daily_data) : InputCount(i, selectedCluster) = 0
    /\ emitted = <<>>

\* C12: the canvas onMouseLeave handler can run in every state in which the
\* canvas exists; it sets tooltip and hoveredCluster to null and leaves
\* selectedCluster as it was.
C12_MouseLeaveClearsHover ==
    /\ [](view = "flow" /\ CanvasRendered(processedData) => ENABLED MouseLeave)
    /\ [][MouseLeave =>
             /\ tooltip' = <<>>
             /\ hoveredCluster' = Null
             /\ UNCHANGED selectedCluster]_vars

\* nothing is hovered and no tooltip shows while a cluster with papers is
\* selected in a plot with positive area
C12_Witness ==
    /\ view = "flow"
    /\ PlotHasArea
    /\ tooltip = <<>>
    /\ hoveredCluster = Null
    /\ selectedCluster # Null
    /\ \E i \in 1..Len(flowData.daily_data) : InputCount(i, selectedCluster) > 0

-----------------------------------------------------------------------------
(* Properties of the graph view                                            *)

NodeIdsOf(g) == {g.nodes[i].id : i \in 1..Len(g.nodes)}

\* some link of the snapshot names id as its source or as its target
Linked(g, id) ==
    \E i \in 1..Len(g.links) : g.links[i].source = id \/ g.links[i].target = id

\* C6 as stated: no link handed to the layout solver has a source or target
\* that is not the id of a node of the snapshot, and the solver receives as
\* many nodes as the snapshot has.
C6_DanglingLinksDropped ==
    view = "graph" =>
        /\ \A i \in 1..Len(transformedData.links) :
              /\ transformedData.links[i].source \in NodeIdsOf(graphData)
              /\ transformedData.links[i].target \in NodeIdsOf(graphData)
        /\ Len(transformedData.nodes) = Len(graphData.nodes)

\* C7: once the centering forces are installed, a node has the strong
\* strength (0.15) exactly when no link of the snapshot names its id, every
\* other node has the weak strength (0.02), and the strong strength pulls
\* harder at every positive distance from the centre.
C7_IsolatedNodesPulledHarder ==
    view = "graph" /\ forces # <<>> =>
        /\ \A i \in 1..Len(transformedData.nodes) :
              LET id == transformedData.nodes[i].id
              IN  /\ CenterStrength(forces[1], id) = 15 <=> ~Linked(graphData, id)
                  /\ CenterStrength(forces[1], id) = 2 <=> Linked(graphData, id)
        /\ \A d \in 1..3 : 15 * d > 2 * d

\* forces are installed on a snapshot with an isolated node, a node that is
\* only the target of a link and a link to an id that is not a node
C7_Witness ==
    /\ view = "graph"
    /\ forces # <<>>
    /\ \E i, j \in 1..Len(graphData.nodes) :
          /\ ~Linked(graphData, graphData.nodes[i].id)
          /\ Linked(graphData, graphData.nodes[j].id)
          /\ \A k \in 1..Len(graphData.links) :
                graphData.links[k].source # graphData.nodes[j].id

-----------------------------------------------------------------------------
(* Properties of the scales                                                *)

\* C8: with a positive inner width and height, xScale does not decrease
\* along the days and yScale does not increase with the value; the first day
\* is drawn at the left margin and the value 0 at the bottom of the plot.
C8_ScalesMonotone ==
    view = "flow" /\ processedData # <<>> /\ PlotHasArea =>
        LET pd == processedData[1]
            n  == Len(pd.dates)
        IN  /\ \A i, j \in 1..n :
                  i <= j => RLe(XScale(pd, dimensions, pd.dates[i]),
                                XScale(pd, dimensions, pd.dates[j]))
            /\ \A u, v \in 0..pd.maxY :
                  u <= v => RLe(YScale(pd, dimensions, v), YScale(pd, dimensions, u))
            /\ XScale(pd, dimensions, pd.dates[1]) = RInt(MarginLeft)
            /\ YScale(pd, dimensions, 0) = RInt(dimensions.height - MarginBottom)

C8_Witness ==
    /\ view = "flow"
    /\ processedData # <<>>
    /\ PlotHasArea
    /\ Len(processedData[1].dates) >= 2
    /\ processedData[1].maxY >= 2
    /\ tooltip # <<>>

\* C9: every scale denominator is at least 1: maxPaperCount and
\* maxLinkStrength of a graph snapshot, also as captured by the collision
\* force, and maxY and the date-index denominator of a flow snapshot.
C9_DenominatorsAtLeastOne ==
    /\ view = "graph" =>
          /\ MaxPaperCount(graphData) >= 1
          /\ MaxLinkStrength(graphData) >= 1
          /\ \A i \in 1..Len(forceTimers) : forceTimers[i].maxPaperCount >= 1
          /\ forces # <<>> => forces[1].collisionMax >= 1
    /\ view = "flow" /\ processedData # <<>> =>
          /\ processedData[1].maxY >= 1
          /\ XDenominator(processedData[1]) >= 1

\* a graph whose nodes all have no papers and whose links all share none,
\* with the collision force installed
C9_Witness ==
    /\ view = "graph"
    /\ Len(graphData.nodes) > 0
    /\ Len(graphData.links) > 0
    /\ \A i \in 1..Len(graphData.nodes) : graphData.nodes[i].paperCount = 0
    /\ \A i \in 1..Len(graphData.links) : graphData.links[i].sharedCount = 0
    /\ forces # <<>>

-----------------------------------------------------------------------------
(* Properties of the host notification                                     *)

\* C10 as stated: a canvas click while a cluster is hovered and the callback
\* is supplied notifies the host exactly once, with the hovered cluster and
\* the date of a day of the snapshot; a canvas click with no hovered cluster
\* changes nothing and notifies nobody.
C10_Original ==
    [][HandleClick =>
        /\ hoveredCluster # Null /\ hasOnClusterClick =>
              /\ Len(emitted') = 1
              /\ emitted'[1].cluster = hoveredCluster
              /\ \E i \in 1..Len(flowData.daily_data) :
                    emitted'[1].date = flowData.daily_data[i].date
        /\ hoveredCluster = Null =>
              /\ emitted' = <<>>
              /\ UNCHANGED <<tooltip, hoveredCluster, selectedCluster, dimensions>>]_vars

\* C10 amended: the notification is made exactly when, besides, a tooltip is
\* showing, and carries the hovered cluster and the tooltip's date; a click
\* while a cluster is hovered without a tooltip notifies nobody.
C10_ClickNotifiesWithTooltipDate ==
    [][HandleClick =>
        /\ hoveredCluster # Null /\ hasOnClusterClick /\ tooltip # <<>> =>
              emitted' = <<[cluster |-> hoveredCluster, date |-> tooltip[1].date]>>
        /\ hoveredCluster # Null /\ ~(hasOnClusterClick /\ tooltip # <<>>) =>
              emitted' = <<>>
        /\ hoveredCluster = Null =>
              /\ emitted' = <<>>
              /\ UNCHANGED <<tooltip, hoveredCluster, selectedCluster, dimensions>>]_vars

\* the host was notified by a click that selected the hovered cluster
C10_Witness ==
    /\ emitted # <<>>
    /\ hasOnClusterClick
    /\ tooltip # <<>>
    /\ emitted[1].cluster = hoveredCluster
    /\ emitted[1].date = tooltip[1].date
    /\ selectedCluster = hoveredCluster

\* ClusterGraph mounted on a one-node snapshot in a container of the initial
\* size; resizes, snapshot changes, force timers and the simulation
InitLayout ==
    /\ MountedGraph({[nodes |-> <<ClusterNode(1, 0)>>, links |-> <<>>]},
                    {[width |-> InitialGraphWidth, height |-> InitialGraphHeight]})
    /\ selectedNodeId = Null
    /\ hasOnNodeHover = FALSE

NextLayout ==
    \/ GraphResizes
    \/ ForceTimerFires
    \/ SnapshotChanges
    \/ SimulationTick

SpecLayout == InitLayout /\ [][NextLayout]_vars

\* ClusterGraph mounted on a snapshot without links; resizes and force
\* timers while the simulation runs, a legend entry is hovered and the
\* fullscreen toggle is used
InitResize ==
    /\ MountedGraph(LayoutSnapshots,
                    {[width |-> InitialGraphWidth, height |-> InitialGraphHeight]})
    /\ selectedNodeId = Null
    /\ hasOnNodeHover = FALSE

NextResize ==
    \/ GraphResizes
    \/ ForceTimerFires
    \/ SimulationTick
    \/ GraphLegendEnters
    \/ GraphLegendLeaves
    \/ ToggleFullscreen
    \/ PlatformSettles
    \/ PromiseReactions
    \/ HandleFullscreenChange

SpecResize == InitResize /\ [][NextResize]_vars

\* snapshots of zero to MaxNodes nodes without papers, linked in a chain by
\* up to MaxLinks links of one shared paper
ChainSnapshots ==
    {[nodes |-> [i \in 1..n |-> ClusterNode(i, 0)],
      links |-> [i \in 1..Min2(n - 1, MaxLinks) |->
                   [source |-> NodeIds[i], target |-> NodeIds[i + 1], sharedCount |-> 1]]] :
       n \in 1..MaxNodes} \cup {NoGraph}

\* either component mounted, and what works on its snapshot: stacking (at
\* mount), hit-testing and selection in the flow view; ticks, hovers, clicks,
\* resizes and the force timers in the graph view
InitSnapshot ==
    \/ InitStack
    \/ /\ MountedGraph(ChainSnapshots,
                       {[width |-> InitialGraphWidth, height |-> InitialGraphHeight]})
       /\ selectedNodeId = Null
       /\ hasOnNodeHover = FALSE

NextSnapshot ==
    \/ PointerMoves
    \/ HandleClick
    \/ LegendClicks
    \/ SimulationTick
    \/ CanvasHovers
    \/ CanvasClicks
    \/ GraphResizes
    \/ ForceTimerFires

SpecSnapshot == InitSnapshot /\ [][NextSnapshot]_vars

\* snapshots of one day on which each of zero to MaxClusters clusters has
\* one paper
OneDaySnapshots ==
    {[clusters |-> SubSeq(ClusterNames, 1, k), colors |-> FlowColors,
      daily_data |-> <<[date |-> DateNames[1],
                        cluster_counts |-> [c \in {ClusterNames[j] : j \in 1..k} |-> 1]]>>] :
       k \in 0..MaxClusters}

\* the host passes another flowData to the mounted FlowVisualization:
\* processedData is computed again, and the useState values stay
SetFlowData(f) ==
    /\ view = "flow"
    /\ f # flowData
    /\ flowData' = f
    /\ processedData' = ProcessedData(f)
    /\ emitted' = <<>>
    /\ UNCHANGED <<hostVars, view, dimensions, hasOnClusterClick, tooltip, hoveredCluster,
                   selectedCluster, graphVars>>

FlowSnapshotChanges == \E f \in OneDaySnapshots : SetFlowData(f)

\* either component mounted, hover and selection, and the host replacing the
\* snapshot of the mounted component
InitReplace ==
    \/ /\ view = "flow"
       /\ HostIdle
       /\ flowData \in OneDaySnapshots
       /\ processedData = ProcessedData(flowData)
       /\ hasOnClusterClick = FALSE
       /\ dimensions = [width |-> 410, height |-> 400]
       /\ tooltip = <<>>
       /\ hoveredCluster = Null
       /\ selectedCluster = Null
       /\ emitted = <<>>
       /\ GraphIdle
    \/ /\ MountedGraph(LayoutSnapshots,
                       {[width |-> InitialGraphWidth, height |-> InitialGraphHeight]})
       /\ selectedNodeId = Null
       /\ hasOnNodeHover = FALSE

NextReplace ==
    \/ PointerMoves
    \/ MouseLeave
    \/ LegendEnters
    \/ LegendLeaves
    \/ LegendClicks
    \/ FlowSnapshotChanges
    \/ CanvasHovers
    \/ GraphLegendEnters
    \/ GraphLegendLeaves
    \/ ForceTimerFires
    \/ SnapshotChanges

SpecReplace == InitReplace /\ [][NextReplace]_vars

-----------------------------------------------------------------------------
(* Properties of the stacked values on sparse input                        *)

\* C16: every StackedDay's values has exactly one entry per cluster, in the
\* order of clusters; a cluster the day's cluster_counts has no key for gets
\* count 0; keys of cluster_counts that are not in clusters add nothing: no
\* entry, nothing in the total, and the stacked data is what it would be
\* without those keys.
C16_OneValuePerCluster ==
    view = "flow" /\ processedData # <<>> =>
        LET clusters   == flowData.clusters
            known      == {clusters[j] : j \in 1..Len(clusters)}
            Listed(day) == [day EXCEPT !.cluster_counts =
                              [c \in DOMAIN day.cluster_counts \cap known |->
                                  day.cluster_counts[c]]]
        IN  /\ Len(processedData[1].stackedData) = Len(flowData.daily_data)
            /\ \A i \in 1..Len(flowData.daily_data) :
                  LET day == flowData.daily_data[i]
                      sd  == processedData[1].stackedData[i]
                  IN  /\ Len(sd.values) = Len(clusters)
                      /\ \A j \in 1..Len(clusters) :
                            /\ sd.values[j].cluster = clusters[j]
                            /\ sd.values[j].count =
                                  IF clusters[j] \in DOMAIN day.cluster_counts
                                  THEN day.cluster_counts[clusters[j]]
                                  ELSE 0
                      /\ sd.total = SumOver(day.cluster_counts,
                                            DOMAIN day.cluster_counts \cap known)
                      /\ sd = StackedDay(flowData, Listed(day))
            /\ tooltip # <<>> =>
                  \E i \in 1..Len(flowData.daily_data) :
                      /\ flowData.daily_data[i].date = tooltip[1].date
                      /\ tooltip[1].count =
                            InputCount(i, tooltip[1].cluster)

\* a day has no key for the first cluster, a key for the second, and a key
\* that is not in clusters; the pointer is over the second cluster's band
C16_Witness ==
    /\ view = "flow"
    /\ Len(flowData.clusters) >= 2
    /\ tooltip # <<>>
    /\ tooltip[1].cluster = flowData.clusters[2]
    /\ \E i \in 1..Len(flowData.daily_data) :
          LET cc == flowData.daily_data[i].cluster_counts
          IN  /\ flowData.daily_data[i].date = tooltip[1].date
              /\ flowData.clusters[1] \notin DOMAIN cc
              /\ flowData.clusters[2] \in DOMAIN cc
              /\ \E c \in DOMAIN cc :
                    \A j \in 1..Len(flowData.clusters) : flowData.clusters[j] # c
              /\ processedData[1].stackedData[i].values[1].count = 0
              /\ processedData[1].stackedData[i].total = cc[flowData.clusters[2]]

-----------------------------------------------------------------------------
(* Properties of the graph view's rendering, hover and click               *)

\* C15: for every node the base radius is 12 + 28 * paperCount /
\* maxPaperCount, lies in [12, 40] and does not decrease with paperCount; the
\* rendered radius is the base times 1.4 for the hovered or selected node,
\* times 0.75 for any other node while some node is hovered, and the base
\* otherwise; counts 10 and 5 of a maximum of 10 give 40 and 26.
C15_NodeRadius ==
    view = "graph" =>
        LET max     == MaxPaperCount(graphData)
            base(i) == Rat(12 * max + 28 * graphData.nodes[i].paperCount, max)
        IN  /\ \A i \in 1..Len(graphData.nodes) :
                  LET node == graphData.nodes[i]
                  IN  /\ BaseSize(node, max) = base(i)
                      /\ RLe(RInt(12), base(i)) /\ RLe(base(i), RInt(40))
                      /\ \A j \in 1..Len(graphData.nodes) :
                            node.paperCount <= graphData.nodes[j].paperCount
                                => RLe(base(i), base(j))
                      /\ GetNodeSize(node, hoveredNode, selectedNodeId, max) =
                            IF hoveredNode = node.id \/ selectedNodeId = node.id
                            THEN RMul(base(i), <<7, 5>>)
                            ELSE IF hoveredNode # Null
                                 THEN RMul(base(i), <<3, 4>>)
                                 ELSE base(i)
            /\ BaseSize([paperCount |-> 10], 10) = RInt(40)
            /\ BaseSize([paperCount |-> 5], 10) = RInt(26)

\* one node is selected and not hovered, another one is hovered, and the
\* two have different paper counts
C15_Witness ==
    /\ view = "graph"
    /\ hoveredNode # Null
    /\ selectedNodeId # Null
    /\ selectedNodeId # hoveredNode
    /\ \E i, j \in 1..Len(graphData.nodes) :
          /\ graphData.nodes[i].id = hoveredNode
          /\ graphData.nodes[j].id = selectedNodeId
          /\ graphData.nodes[i].paperCount # graphData.nodes[j].paperCount

\* C17: a click on a node, on the canvas or on its legend entry, makes
\* exactly one onNodeClick notification, which carries the six fields of the
\* snapshot's node with that id, and changes neither hoveredNode nor
\* isFullscreen.
C17_NodeClickEmitsRecord ==
    [][\A node \in CanvasNodes(transformedData) \cup GraphLegendNodes(graphData) :
          HandleNodeClick(node) =>
              /\ \E i \in 1..Len(graphData.nodes) :
                    /\ graphData.nodes[i].id = node.id
                    /\ emitted' = <<[callback |-> "onNodeClick",
                                     node     |-> <<graphData.nodes[i]>>]>>
              /\ DOMAIN emitted'[1].node[1] =
                    {"id", "name", "paperCount", "topTaskTags", "topModalities", "paperIds"}
              /\ UNCHANGED <<hoveredNode, isFullscreen>>]_vars

\* the host was told of a click on a node that has papers while another
\* node is hovered
C17_Witness ==
    /\ view = "graph"
    /\ emitted # <<>>
    /\ emitted[1].callback = "onNodeClick"
    /\ emitted[1].node[1].paperCount > 0
    /\ Len(emitted[1].node[1].paperIds) > 0
    /\ hoveredNode # Null
    /\ hoveredNode # emitted[1].node[1].id

\* C18: entering the legend entry of a node and a canvas hover over that
\* node set the one hoveredNode to its id, and what is rendered afterwards is
\* what the rendering rules give for that value; leaving a legend entry and
\* hovering the empty canvas set hoveredNode to null.
C18_SingleHoverState ==
    [][/\ \A node \in GraphLegendNodes(graphData) :
             GraphLegendEnter(node) =>
                 /\ hoveredNode' = node.id
                 /\ Rendering(graphData', hoveredNode', selectedNodeId')
                       = Rendering(graphData, node.id, selectedNodeId)
       /\ \A node \in CanvasNodes(transformedData) :
             HandleNodeHover(<<node>>) =>
                 /\ hoveredNode' = node.id
                 /\ Rendering(graphData', hoveredNode', selectedNodeId')
                       = Rendering(graphData, node.id, selectedNodeId)
       /\ \A node \in GraphLegendNodes(graphData) :
             GraphLegendLeave(node) => hoveredNode' = Null
       /\ HandleNodeHover(<<>>) => hoveredNode' = Null]_vars

\* a node is hovered through its legend entry (the cursor, which only the
\* canvas hover sets, is still "grab") and a link that ends in it is
\* highlighted
C18_Witness ==
    /\ view = "graph"
    /\ hoveredNode # Null
    /\ cursor = "grab"
    /\ \E i \in 1..Len(graphData.links) :
          /\ graphData.links[i].target = hoveredNode
          /\ GetLinkColor(graphData.links[i], hoveredNode) = HighlightColor
          /\ GetLinkColor(graphData.links[i], Null) = LinkColor

-----------------------------------------------------------------------------
(* Properties of the fullscreen toggle                                     *)

\* C13 as stated: whenever no fullscreen request is outstanding and every
\* fullscreenchange event has been handled, isFullscreen tells whether the
\* document has a fullscreen element.
C13_FullscreenReconciled ==
    view = "graph" /\ promises = <<>> /\ fullscreenEvents = 0 =>
        isFullscreen = fullscreenElement

\* C14 as stated: the reaction to a rejected request to enter logs the
\* failure, leaves isFullscreen false and changes neither the hover state
\* nor the graph state.
C14_RejectionLeavesNotFullscreen ==
    [][\A i \in 1..Len(promises) :
          PromiseReaction(i) /\ promises[i] = [op |-> "enter", state |-> "rejected"] =>
              /\ logged' = <<ErrorEntering>>
              /\ isFullscreen' = FALSE
              /\ UNCHANGED <<hoverVars, layoutVars, dimensions>>]_vars

-----------------------------------------------------------------------------
(* Properties of resizes and snapshot changes of the graph                 *)

\* C19: on a graph with at least one node, when no force timer is pending
\* the installed centering forces target the centre of the current
\* dimensions, and the simulation has been reheated since they were
\* installed.
C19_ForcesFollowLatestDimensions ==
    view = "graph" /\ Len(graphData.nodes) > 0 /\ forceTimers = <<>> =>
        /\ forces # <<>>
        /\ forces[1].centerX = Rat(dimensions.width, 2)
        /\ forces[1].centerY = Rat(dimensions.height, 2)
        /\ reheated

\* the mounted one-node snapshot was replaced and the container resized,
\* and every timer has fired
C19_Witness ==
    /\ view = "graph"
    /\ Len(graphData.nodes) > 1
    /\ dimensions = [width |-> 400, height |-> 400]
    /\ forceTimers = <<>>
    /\ forces # <<>>
    /\ forces[1].centerX = RInt(200)
    /\ forces[1].isolatedNodeIds = IsolatedNodeIds(graphData)

\* C20: a resize of the graph's container changes dimensions and schedules
\* the force effect's timer, and leaves the node and link objects, their
\* positions, hoveredNode and isFullscreen as they are.
C20_ResizeKeepsLayout ==
    [][\A size \in GraphSizes :
          GraphResize(size) =>
              /\ dimensions' = size
              /\ forceTimers' = IF Len(graphData.nodes) > 0
                                THEN Append(forceTimers, ForceClosure(graphData, size))
                                ELSE forceTimers
              /\ UNCHANGED <<graphData, transformedData, positions, forces,
                             hoveredNode, isFullscreen>>]_vars

\* the container has been resized while the view is fullscreen, a node is
\* hovered and the nodes have moved; the timer of that resize is pending
C20_Witness ==
    /\ view = "graph"
    /\ positions = "moved"
    /\ hoveredNode # Null
    /\ isFullscreen
    /\ dimensions = [width |-> 400, height |-> 400]
    /\ forceTimers # <<>>
    /\ forceTimers[Len(forceTimers)].dimensions = dimensions

-----------------------------------------------------------------------------
(* Properties of the snapshots the host passes in                          *)

-----------------------------------------------------------------------------
(* Properties of the collision force                                       *)

\* C22: once the forces are installed, the collision radius of every node,
\* nodes without papers included, is the node's base visual radius plus the
\* padding of 40.
C22_CollisionMatchesVisualRadius ==
    view = "graph" /\ forces # <<>> =>
        \A i \in 1..Len(graphData.nodes) :
            CollisionRadius(forces[1], graphData.nodes[i]) =
                RAdd(BaseSize(graphData.nodes[i], MaxPaperCount(graphData)),
                     RInt(CollisionPadding))

-----------------------------------------------------------------------------
(* Properties of the drawn bands                                           *)

\* C23: the fill opacity of a band is 0.9, with the outline, if its cluster
\* is the hovered or the selected one, otherwise 0.3 if some cluster is
\* hovered, otherwise 0.7; the outline is drawn in the first case only.
C23_BandOpacity ==
    view = "flow" /\ processedData # <<>> =>
        \A j \in 1..Len(processedData[1].clusters) :
            LET cluster == processedData[1].clusters[j]
                alpha   == BandAlpha(cluster, hoveredCluster, selectedCluster)
                outline == BandOutlined(cluster, hoveredCluster, selectedCluster)
            IN  /\ alpha = IF hoveredCluster = cluster \/ selectedCluster = cluster
                           THEN Rat(9, 10)
                           ELSE IF hoveredCluster # Null THEN Rat(3, 10) ELSE Rat(7, 10)
                /\ outline = (hoveredCluster = cluster \/ selectedCluster = cluster)
                /\ selectedCluster = cluster => alpha = Rat(9, 10)
                /\ hoveredCluster = Null /\ selectedCluster # cluster => alpha = Rat(7, 10)

\* one cluster is selected while the other one is hovered
C23_Witness ==
    /\ view = "flow"
    /\ processedData # <<>>
    /\ Len(processedData[1].clusters) >= 2
    /\ selectedCluster # Null
    /\ hoveredCluster # Null
    /\ hoveredCluster # selectedCluster
    /\ BandAlpha(selectedCluster, hoveredCluster, selectedCluster) = Rat(9, 10)

-----------------------------------------------------------------------------
(* Properties of the flow hit test                                         *)

\* the distance between two numbers
RDist(a, b) == Rat(Abs(a[1] * b[2] - b[1] * a[2]), a[2] * b[2])

\* no band of the day with a positive count holds y
NoBandHolds(pd, dims, day, y) ==
    \A j \in 1..Len(day.values) :
        ~(/\ day.values[j].count > 0
          /\ RLe(YScale(pd, dims, day.values[j].y1), y)
          /\ RLe(y, YScale(pd, dims, day.values[j].y0)))

\* the pointer at p is inside the plot's inner rectangle
InsidePlot(dims, p) ==
    /\ RLe(RInt(MarginLeft), p[1]) /\ RLe(p[1], RInt(dims.width - MarginRight))
    /\ RLe(RInt(MarginTop), p[2]) /\ RLe(p[2], RInt(dims.height - MarginBottom))

\* the day index chosen for p exists and is the one nearest to p's x, the
\* later day of two equally near ones
DayIsNearest(pd, dims, p) ==
    LET idx == ClampedIdx(pd, dims, p[1])
        dist(k) == RDist(p[1], XScale(pd, dims, pd.dates[k]))
    IN  /\ idx # <<>>
        /\ idx[1] \in 0..(Len(pd.dates) - 1)
        /\ \A k \in 1..Len(pd.dates) :
              /\ RLe(dist(idx[1] + 1), dist(k))
              /\ dist(idx[1] + 1) = dist(k) => k <= idx[1] + 1

\* what the hit test does outside the plot and where no band is hit
HitTestClears(p) ==
    LET pd  == processedData[1]
        hit == HitTest(flowData, pd, dimensions, tooltip, p[1], p[2])
        day == DayAt(pd, ClampedIdx(pd, dimensions, p[1]))
    IN  /\ ~InsidePlot(dimensions, p) => hit.hoveredCluster = Null /\ hit.tooltip = <<>>
        /\ InsidePlot(dimensions, p) /\ day = <<>> =>
              hit.hoveredCluster = Null /\ hit.tooltip = <<>>
        /\ InsidePlot(dimensions, p) /\ day # <<>>
              /\ NoBandHolds(pd, dimensions, day[1], p[2]) =>
              hit.hoveredCluster = Null /\ hit.tooltip = <<>>

\* C24 as stated: outside the plot's inner rectangle a pointer move clears
\* tooltip and hoveredCluster; inside it the day nearest to the pointer's x
\* is chosen and always exists; if none of its bands with a positive count
\* holds the pointer's y, both are cleared.
C24_Original ==
    view = "flow" /\ processedData # <<>> =>
        \A p \in PointerPositions(processedData[1], dimensions) :
            /\ HitTestClears(p)
            /\ InsidePlot(dimensions, p) => DayIsNearest(processedData[1], dimensions, p)

\* C24 amended: the same, with the nearest day chosen and existing whenever
\* the plot's inner width is positive; with an inner width of 0 no day may
\* be chosen, and then both are cleared.
C24_HitTestRejectsOrFindsDay ==
    view = "flow" /\ processedData # <<>> =>
        \A p \in PointerPositions(processedData[1], dimensions) :
            /\ HitTestClears(p)
            /\ InsidePlot(dimensions, p) /\ InnerWidth(dimensions) > 0 =>
                  DayIsNearest(processedData[1], dimensions, p)

\* of two days, the pointer half way between them has chosen the second
\* one, and a pointer one pixel left of the plot at the height of a band
\* with papers is rejected
C24_Witness ==
    /\ view = "flow"
    /\ processedData # <<>>
    /\ InnerWidth(dimensions) > 0
    /\ Len(processedData[1].dates) = 2
    /\ tooltip # <<>>
    /\ tooltip[1].x = Rat(2 * MarginLeft + InnerWidth(dimensions), 2)
    /\ tooltip[1].date = processedData[1].dates[2]
    /\ \E j \in 1..Len(processedData[1].clusters) :
          LET v == processedData[1].stackedData[1].values[j]
              p == <<RInt(MarginLeft - 1), BandMidY(processedData[1], dimensions, v)>>
          IN  /\ v.count > 0
              /\ InnerHeight(dimensions) > 0
              /\ p \in PointerPositions(processedData[1], dimensions)
              /\ HitTest(flowData, processedData[1], dimensions, tooltip, p[1], p[2]).tooltip = <<>>

\* C25: where the day under the pointer has two adjacent bands with papers
\* and the pointer's y is on the edge they share, the top of the one and
\* the bottom of the next, the hit test hovers the upper band, the next
\* cluster in the order of clusters.
C25_UpperBandWins ==
    view = "flow" /\ processedData # <<>> /\ PlotHasArea =>
        \A p \in PointerPositions(processedData[1], dimensions) :
            LET pd  == processedData[1]
                hit == HitTest(flowData, pd, dimensions, tooltip, p[1], p[2])
                day == DayAt(pd, ClampedIdx(pd, dimensions, p[1]))
            IN  InsidePlot(dimensions, p) /\ day # <<>> =>
                    \A j \in 1..(Len(day[1].values) - 1) :
                        /\ day[1].values[j].count > 0
                        /\ day[1].values[j + 1].count > 0
                        /\ p[2] = YScale(pd, dimensions, day[1].values[j].y1)
                        /\ p[2] = YScale(pd, dimensions, day[1].values[j + 1].y0)
                        => hit.hoveredCluster = day[1].values[j + 1].cluster

-----------------------------------------------------------------------------
(* Properties of tooltip and hover together                                *)

\* C26: whenever a tooltip is showing, hoveredCluster is the tooltip's
\* cluster, the tooltip's count is positive and its total is at least its
\* count; and a canvas click notifies the host only with the cluster and the
\* date of one tooltip.
C26_TooltipMatchesHover ==
    /\ [](view = "flow" /\ tooltip # <<>> =>
            /\ hoveredCluster = tooltip[1].cluster
            /\ tooltip[1].count > 0
            /\ tooltip[1].total >= tooltip[1].count)
    /\ [][HandleClick /\ emitted' # <<>> =>
            /\ tooltip # <<>>
            /\ emitted'[1].cluster = tooltip[1].cluster
            /\ emitted'[1].date = tooltip[1].date]_vars

-----------------------------------------------------------------------------
(* App: month loading and reindexing                                       *)
(*                                                                         *)
(* The server is the environment: the requests of a loadMonthData call and *)
(* of the reindex chain are answered in any order. What runs after an      *)
(* await is one step, and so is a timer callback up to its await.          *)

MaxLoads == 2    \* loadMonthData calls awaiting their responses
MaxPolls == 2    \* status responses of one chain that report neither completed nor failed

LoadFailed == "Failed to load papers. Make sure the backend is running and papers are indexed."
StartFailed == "Failed to start indexing"
\* the message of a status response that reports failed
IndexingFailed == "status.message"

\* loadMonthData up to its await: setIsLoading(true), setError(null) and the
\* four requests for the month of the render whose closure is called
LoadStarted(a) == [a EXCEPT !.isLoading = TRUE, !.error = Null]

\* loadMonthData after its await: the try block's setters when all four
\* promises resolved (fetchFlowData's rejection is turned into null), the
\* catch block's when one of the other three rejected, then the finally block
LoadResolved(a, month, outcome) ==
    IF outcome = "failed"
    THEN [a EXCEPT !.error = LoadFailed, !.summary = <<>>, !.allPapers = <<>>,
                   !.filteredPapers = <<>>, !.graphData = <<>>, !.flowData = <<>>,
                   !.isLoading = FALSE]
    ELSE [a EXCEPT !.summary = <<month>>, !.allPapers = <<month>>,
                   !.filteredPapers = <<month>>, !.graphData = <<month>>,
                   !.flowData = IF outcome = "noFlow" THEN <<>> ELSE <<month>>,
                   !.isLoading = FALSE]

LoadOutcomes == {"ok", "noFlow", "failed"}

\* the month selector's onChange with another month: setSelectedMonth, and
\* the effect keyed on selectedMonth calls loadMonthData
SetSelectedMonth(month) ==
    /\ view = "app"
    /\ month # app.selectedMonth
    /\ Len(loads) < MaxLoads
    /\ app' = LoadStarted([app EXCEPT !.selectedMonth = month])
    /\ loads' = Append(loads, month)
    /\ UNCHANGED <<reindex, lastNodeHover, view, dimensions, flowVars, graphVars, emitted>>

\* the responses of the i-th pending loadMonthData call arrive
LoadResponds(i, outcome) ==
    /\ view = "app"
    /\ i \in 1..Len(loads)
    /\ app' = LoadResolved(app, loads[i], outcome)
    /\ loads' = RemoveAt(loads, i)
    /\ UNCHANGED <<reindex, lastNodeHover, view, dimensions, flowVars, graphVars, emitted>>

\* handleReindex up to its await: the early return while isIndexing, else
\* setIsIndexing(true), setIndexStatus and the trigger request
HandleReindex ==
    /\ view = "app"
    /\ IF app.isIndexing
       THEN UNCHANGED <<app, reindex>>
       ELSE /\ app' = [app EXCEPT !.isIndexing = TRUE, !.indexStatus = "Starting..."]
            /\ reindex' = Append(reindex, [month |-> app.selectedMonth,
                                           waiting |-> "trigger", polls |-> 0])
    /\ UNCHANGED <<loads, lastNodeHover, view, dimensions, flowVars, graphVars, emitted>>

\* triggerReindex resolves: setTimeout(pollStatus, 1000); or rejects: the
\* catch block
TriggerResponds(i, ok) ==
    /\ view = "app"
    /\ i \in 1..Len(reindex)
    /\ reindex[i].waiting = "trigger"
    /\ IF ok
       THEN /\ reindex' = [reindex EXCEPT ![i].waiting = "timer"]
            /\ app' = app
       ELSE /\ reindex' = RemoveAt(reindex, i)
            /\ app' = [app EXCEPT !.isIndexing = FALSE, !.error = StartFailed]
    /\ UNCHANGED <<loads, lastNodeHover, view, dimensions, flowVars, graphVars, emitted>>

\* the timer fires: pollStatus up to its await, the status request
PollTimerFires(i) ==
    /\ view = "app"
    /\ i \in 1..Len(reindex)
    /\ reindex[i].waiting = "timer"
    /\ reindex' = [reindex EXCEPT ![i].waiting = "status"]
    /\ UNCHANGED <<app, loads, lastNodeHover, view, dimensions, flowVars, graphVars, emitted>>

StatusOutcomes == {"completed", "failed", "running", "rejected"}

\* fetchIndexStatus settles and pollStatus continues: setIndexStatus, then
\* by status the reload with the month of the closure, the error, or the
\* next timer; a rejection leaves the callback with nothing set
StatusResponds(i, outcome) ==
    /\ view = "app"
    /\ i \in 1..Len(reindex)
    /\ reindex[i].waiting = "status"
    /\ CASE outcome = "completed" ->
              /\ Len(loads) < MaxLoads
              /\ app' = LoadStarted([app EXCEPT !.indexStatus = outcome, !.isIndexing = FALSE])
              /\ loads' = Append(loads, reindex[i].month)
              /\ reindex' = RemoveAt(reindex, i)
         [] outcome = "failed" ->
              /\ app' = [app EXCEPT !.indexStatus = outcome, !.isIndexing = FALSE,
                                    !.error = IndexingFailed]
              /\ reindex' = RemoveAt(reindex, i)
              /\ loads' = loads
         [] outcome = "running" ->
              /\ reindex[i].polls < MaxPolls
              /\ app' = [app EXCEPT !.indexStatus = outcome]
              /\ reindex' = [reindex EXCEPT ![i].waiting = "timer", ![i].polls = @ + 1]
              /\ loads' = loads
         [] outcome = "rejected" ->
              /\ app' = app
              /\ reindex' = RemoveAt(reindex, i)
              /\ loads' = loads
    /\ UNCHANGED <<lastNodeHover, view, dimensions, flowVars, graphVars, emitted>>

SetSelectedMonths == \E month \in Months : SetSelectedMonth(month)
LoadsRespond      == \E i \in 1..Len(loads) : \E outcome \in LoadOutcomes : LoadResponds(i, outcome)
TriggersRespond   == \E i \in 1..Len(reindex) : \E ok \in BOOLEAN : TriggerResponds(i, ok)
PollTimersFire    == \E i \in 1..Len(reindex) : PollTimerFires(i)
StatusesRespond   ==
    \E i \in 1..Len(reindex) : \E outcome \in StatusOutcomes : StatusResponds(i, outcome)

\* App after its first render and the mount run of the effect, which calls
\* loadMonthData for the initial month
InitApp ==
    /\ view = "app"
    /\ \E month \in Months :
          /\ app = LoadStarted(AppInitial(month))
          /\ loads = <<month>>
    /\ reindex = <<>>
    /\ lastNodeHover = <<>>
    /\ dimensions = [width |-> InitialGraphWidth, height |-> InitialGraphHeight]
    /\ emitted = <<>>
    /\ FlowIdle
    /\ GraphIdle

NextApp ==
    \/ SetSelectedMonths
    \/ LoadsRespond
    \/ HandleReindex
    \/ TriggersRespond
    \/ PollTimersFire
    \/ StatusesRespond

SpecApp == InitApp /\ [][NextApp]_vars

\* every request gets its response and every timer fires
SpecAppFair ==
    /\ SpecApp
    /\ WF_vars(LoadsRespond)
    /\ WF_vars(TriggersRespond)
    /\ WF_vars(PollTimersFire)
    /\ WF_vars(StatusesRespond)

-----------------------------------------------------------------------------
(* Properties of the interaction state when the snapshot is replaced       *)

\* C27: in the flow view selectedCluster and hoveredCluster are each null
\* or a cluster of the current flowData, and in the graph view hoveredNode is
\* null or the id of a node of the current graphData.
C27_InteractionStateInSnapshot ==
    /\ view = "flow" =>
          LET clusters == {flowData.clusters[j] : j \in 1..Len(flowData.clusters)}
          IN  /\ selectedCluster \in {Null} \cup clusters
              /\ hoveredCluster \in {Null} \cup clusters
    /\ view = "graph" =>
          hoveredNode \in {Null} \cup {graphData.nodes[i].id : i \in 1..Len(graphData.nodes)}

-----------------------------------------------------------------------------
(* Properties of the hover notifications of the graph view                 *)

\* C28: with onNodeHover supplied, the argument of the latest onNodeHover
\* call is the record of the node whose id is hoveredNode, or null when
\* hoveredNode is null.
C28_LastHoverArgumentMatches ==
    view = "graph" /\ hasOnNodeHover /\ lastNodeHover # <<>> =>
        IF hoveredNode = Null
        THEN lastNodeHover[1] = <<>>
        ELSE \E node \in CanvasNodes(graphData) :
                /\ node.id = hoveredNode
                /\ lastNodeHover[1] = <<NodeRecord(node)>>

-----------------------------------------------------------------------------
(* Properties of month loading and reindexing                              *)

\* C29: what App holds of summary, paper list, graph snapshot and flow
\* snapshot once no load is in flight was fetched for the selected month,
\* and isLoading is false only when no load is in flight.
C29_LoadsSettleOnSelectedMonth ==
    view = "app" =>
        /\ loads = <<>> =>
              \A held \in {app.summary, app.allPapers, app.graphData, app.flowData} :
                  held \in {<<>>, <<app.selectedMonth>>}
        /\ ~app.isLoading => loads = <<>>

\* C30: when every request is answered and every timer fires, isIndexing
\* set by handleReindex becomes false again, and no second polling chain is
\* started while one runs.
C30_ReindexTerminates ==
    /\ [](view = "app" => Len(reindex) <= 1)
    /\ (view = "app" /\ app.isIndexing) ~> ~app.isIndexing

====
